---- MODULE Spec2Model ----
(***************************************************************************)
(* Skymap: the concurrent open-addressed hash table of                     *)
(* server/src/coredb/skymap.rs.  A Skymap is a Table (a vector of buckets, *)
(* each behind its own reader-writer lock, plus a randomly seeded hasher)  *)
(* behind a table-wide reader-writer lock, and an atomic length counter.   *)
(*                                                                         *)
(* Every thread runs one map operation at a time.  One step of a thread is *)
(* one access to shared memory: taking the table lock, probing one bucket  *)
(* (lock it, test the predicate, unlock it unless it matches), acting on   *)
(* the bucket found, one atomic operation on len, the table swap done      *)
(* under the exclusive table lock.                                         *)
(***************************************************************************)
EXTENDS Integers, Sequences, FiniteSets, TLC

(***************************************************************************)
(* Program constants (skymap.rs:75-97).                                    *)
(***************************************************************************)
MULTIPLICATION_FACTOR == 4
MAX_LOAD_FACTOR_DENOM == 100
MAX_LOAD_FACTOR_TOP == MAX_LOAD_FACTOR_DENOM - 15
DEF_INIT_CAPACITY == 128
DEF_MIN_CAPACITY == 16

(***************************************************************************)
(* Bounds of the model.                                                    *)
(***************************************************************************)
\* keys the operations are called with: 1..NumKeys
NumKeys == 4
\* values the operations are called with: 1..NumVals
NumVals == 2
\* the map is created by Skymap::with_capacity(Prefill); a run starts from
\* the empty map or from the map after Prefill further keys were inserted
Prefill == 12
\* hasher seeds a new Table may draw
NumSeeds == 2
\* threads that share the map
NumThreads == 4
\* threads that make the calls of the concurrent specification
NumCallers == 2
\* calls made in one run of the concurrent specification
MaxCalls == 3
MaxCap == 64
MaxProviderCalls == 3
\* keys the calls of the concurrent specification are made with: 1..NumConcKeys
NumConcKeys == 2
\* stores made through one WriteGuard before it is dropped
MaxStores == 1
\* keys removed from the map before its table is iterated: up to MaxRemoved
MaxRemoved == 3
\* calls the authentication providers make in one run
MaxAuthCalls == 4

Keys == 1..NumKeys
Vals == 1..NumVals
FillKeys == (NumKeys + 1)..(NumKeys + Prefill + 1)
AllKeys == Keys \cup FillKeys
Seeds == 1..NumSeeds
Threads == 1..NumThreads
Callers == 1..NumCallers

(***************************************************************************)
(* HashBucket (skymap.rs:102-121) and its predicates.                      *)
(***************************************************************************)
Empty == [st |-> "Empty", k |-> 0, v |-> 0]
Removed == [st |-> "Removed", k |-> 0, v |-> 0]
Contains(k, v) == [st |-> "Contains", k |-> k, v |-> v]

is_empty(b) == b.st = "Empty"
is_removed(b) == b.st = "Removed"
is_available(b) == b.st \in {"Removed", "Empty"}

\* what a call gives back: Option<V>, bool, the unit of clear(), the panic
\* that unwinds the calling thread, and NoRet while the call is running
RetNone == [kind |-> "None", v |-> 0]
RetSome(v) == [kind |-> "Some", v |-> v]
RetBool(b) == [kind |-> IF b THEN "true" ELSE "false", v |-> 0]
RetUnit == [kind |-> "unit", v |-> 0]
RetPanic == [kind |-> "panic", v |-> 0]
NoRet == [kind |-> "-", v |-> 0]

(***************************************************************************)
(* usize arithmetic.  A usize x is held as the integer congruent to it     *)
(* modulo 2^64 that is nearest to 0: a negative number -m stands for       *)
(* 2^64 - m, the result of a wrapping subtraction below 0.  Addition and   *)
(* multiplication are those of the integers; only the order differs.       *)
(***************************************************************************)
Wrapped(x) == x < 0
ULess(a, b) == IF Wrapped(a) = Wrapped(b) THEN a < b ELSE Wrapped(b)

Max(a, b) == IF a >= b THEN a ELSE b

(***************************************************************************)
(* Table (skymap.rs:170-313).  A table is [buckets, hasher]: buckets is a  *)
(* sequence, bucket j of the code is buckets[j + 1].                       *)
(***************************************************************************)
\* Table::new
TableNew(count, seed) == [buckets |-> [j \in 1..count |-> Empty], hasher |-> seed]

\* a bucket count without the bucket added to the quotient
CapacityForExact(cap) ==
    Max(DEF_MIN_CAPACITY, (cap * MAX_LOAD_FACTOR_DENOM) \div MAX_LOAD_FACTOR_TOP)

\* the bucket count Table::with_capacity asks Table::new for
CapacityFor(cap) ==
    Max(DEF_MIN_CAPACITY, (cap * MAX_LOAD_FACTOR_DENOM) \div MAX_LOAD_FACTOR_TOP + 1)

\* Table::with_capacity
TableWithCapacity(cap, seed) == TableNew(CapacityFor(cap), seed)

\* Table::hash.  The code hashes with SipHash keyed by the table's RandomState;
\* the model draws the seed from Seeds and takes these functions of the key:
\* under seed s the keys fall in groups of s with equal hashes, and the hashes
\* exceed the smallest bucket count, so that the reduction modulo the bucket
\* count and the wrap of the probe past the last bucket both happen.
Hash(seed, key) == seed * ((key + seed - 1) \div seed) + 14 - seed

\* the bucket index scan and scan_mut visit in iteration i
ProbeIndex(t, key, i) == (Hash(t.hasher, key) + i) % Len(t.buckets)

BucketAt(t, j) == t.buckets[j + 1]

\* the predicates handed to scan / scan_mut: by lookup and lookup_mut
\* ("lookup"), by find_free_mut ("free") and by fill_from ("empty")
Predicate(kind, key, b) ==
    CASE kind = "lookup" -> (b.st = "Contains" /\ b.k = key) \/ b.st = "Empty"
      [] kind = "free" -> is_available(b)
      [] kind = "empty" -> b.st = "Empty"

\* Table::scan / Table::scan_mut run alone: the index of the first bucket in
\* probe order from iteration i on that matches, or -1 when the loop ends and
\* the code panics
RECURSIVE ScanFrom(_, _, _, _)
ScanFrom(t, kind, key, i) ==
    IF i >= Len(t.buckets) THEN -1
    ELSE IF Predicate(kind, key, BucketAt(t, ProbeIndex(t, key, i)))
         THEN ProbeIndex(t, key, i)
         ELSE ScanFrom(t, kind, key, i + 1)

Scan(t, kind, key) == ScanFrom(t, kind, key, 0)

SetBucket(t, j, b) == [t EXCEPT !.buckets[j + 1] = b]

\* fill_from that does not probe: the pair goes to the bucket its key hashes
\* to, whatever is there
FillOneAtHash(self, b) ==
    IF b.st = "Contains" THEN SetBucket(self, ProbeIndex(self, b.k, 0), b) ELSE self

\* fill_from that carries the tombstones over as well
FillOneWithTombstones(self, b) ==
    IF b.st = "Empty" THEN self
    ELSE SetBucket(self, Scan(self, "empty", IF b.st = "Contains" THEN b.k ELSE 1), b)

\* one iteration of fill_from's for_each: an Occupied bucket of the old table
\* goes to the first Empty bucket in its probe order in self
FillOne(self, b) ==
    IF b.st = "Contains" THEN SetBucket(self, Scan(self, "empty", b.k), b) ELSE self

\* Table::fill_from: the old buckets are consumed in index order
RECURSIVE FillFromAt(_, _, _)
FillFromAt(self, old, j) ==
    IF j >= Len(old.buckets) THEN self
    ELSE FillFromAt(FillOne(self, BucketAt(old, j)), old, j + 1)

FillFrom(self, old) == FillFromAt(self, old, 0)

\* what a lookup run alone answers for key: the value, None, or Panic
LookupValue(t, key) ==
    LET j == Scan(t, "lookup", key) IN
    IF j = -1 THEN RetPanic
    ELSE IF BucketAt(t, j).st = "Contains" THEN RetSome(BucketAt(t, j).v) ELSE RetNone

Occupied(t) == {j \in 0..(Len(t.buckets) - 1) : BucketAt(t, j).st = "Contains"}
HoldersOf(t, key) == {j \in Occupied(t) : BucketAt(t, j).k = key}

\* Skymap::insert run alone on a table it need not grow: the first available
\* bucket in the key's probe order takes the pair
InsertAlone(t, key, v) == SetBucket(t, Scan(t, "free", key), Contains(key, v))

\* the table after the keys NumKeys + 1 .. NumKeys + n were inserted, in that
\* order and with value 1, into Table::with_capacity(Prefill)
RECURSIVE Prefilled(_, _)
Prefilled(seed, n) ==
    IF n = 0 THEN TableWithCapacity(Prefill, seed)
    ELSE InsertAlone(Prefilled(seed, n - 1), NumKeys + n, 1)

(***************************************************************************)
(* State.                                                                  *)
(***************************************************************************)
VARIABLES
    table,   \* Skymap.table: the Table behind the table-wide RwLock
    len,     \* Skymap.len: the AtomicUsize
    build,   \* "debug" or "release" once an overflowing usize operation has
             \* shown which the build is, "any" before
    pc,      \* pc[t]: where thread t is in its call
    call,    \* call[t]: the operation, key and value thread t was called with
    kind,    \* kind[t]: the predicate of the scan thread t is running
    i,       \* i[t]: the iteration of the scan loop
    tl,      \* tl[t]: thread t's hold on the table-wide lock: "none", "r", "w"
    bl,      \* bl[t]: the bucket whose lock thread t holds, or -1
    lcl,     \* lcl[t]: the local `len` of reshard_table and reserve_space; the
             \* number of stores made through the WriteGuard the thread holds
    ret,     \* ret[t]: what the call returned
    calls,   \* the calls made so far in the concurrent specification
    pre,     \* history: the map as it was when the running call was made
    shadow,  \* history: for each key the value the returned calls say it has
    pos,     \* pos[t]: the calls of its program a client thread has made
    iter,    \* the TableIterator a client holds: the buckets left in its table,
             \* the items it has yielded, the buckets popped, and whether
             \* next() has returned None
    auth,    \* the AuthProviders, one a thread: whoami, the call each is in
             \* (op) and its user argument (arg), whoami as the call found it
             \* (was), the result of its last call (res), the origin key they
             \* share, and the claim_root calls that succeeded
    db       \* the CoreDB of coredb/mod.rs: the HashMap behind the table lock
             \* (coremap), each handle's hold on the lock, its call and the
             \* result of its last call

vars == <<table, len, build, pc, call, kind, i, tl, bl, lcl, ret, calls, pre, shadow, pos, iter, auth, db>>
mapVars == <<table, len, build>>
threadVars == <<pc, call, kind, i, tl, bl, lcl, ret>>
\* the variables of the clients, which no step of a map operation changes
clientVars == <<pos, iter, auth, db>>
histVars == <<calls, pre, shadow, clientVars>>

NoCall == [op |-> "-", key |-> 0, val |-> 0]
NoPre == [table |-> <<>>, len |-> 0]
NoIter == [buckets |-> <<>>, out |-> <<>>, pops |-> 0, over |-> TRUE]

\* the CoreDB with no key and no call made
NoDb ==
    [coremap |-> [k \in 1..NumConcKeys |-> << >>],
     lock |-> [t \in Threads |-> "none"],
     call |-> [t \in Threads |-> NoCall],
     res |-> [t \in Threads |-> [code |-> "-", val |-> 0]]]

\* the origin key of the providers and the keys a caller presents
OriginKeys == {"origin", "other"}
Origin == "origin"

\* the providers as AuthProvider::clone leaves them: nobody is logged in
NoAuth ==
    [whoami |-> [t \in Threads |-> 0],
     op |-> [t \in Threads |-> "-"],
     arg |-> [t \in Threads |-> 0],
     was |-> [t \in Threads |-> 0],
     res |-> [t \in Threads |-> "-"],
     origin |-> Origin,
     claimed |-> 0]

BucketCount == Len(table.buckets)

\* the scan is scan_mut (bucket write locks) in lookup_mut and find_free_mut,
\* scan (bucket read locks) in lookup
ScanMut(t) ==
    \/ call[t].op \in {"update", "remove", "true_if_removed", "get_mut"}
    \/ call[t].op = "insert" /\ kind[t] = "free"

\* parking_lot's RwLock: shared with readers, exclusive for a writer
TableReadFree(t) == \A u \in Threads \ {t} : tl[u] # "w"
TableWriteFree(t) == \A u \in Threads \ {t} : tl[u] = "none"
BucketReadFree(t, j) == \A u \in Threads \ {t} : ~(bl[u] = j /\ ScanMut(u))
BucketWriteFree(t, j) == \A u \in Threads \ {t} : bl[u] # j

\* an overflowing usize operation panics in a build with overflow checks
\* (debug) and wraps in one without (release); a run is of one build
Builds == {"debug", "release"}
IsBuild(b) == build \in {"any", b} /\ build' = b

InitTables == {Prefilled(s, n) : s \in Seeds, n \in {0, Prefill}}
InitShadow(t) == [k \in AllKeys |-> LookupValue(t, k).v]

\* the map holds the table t0, the providers are a and no call has been made
InitWithAuth(t0, a) ==
    /\ table = t0
    /\ len = Cardinality(Occupied(table))
    /\ build = "any"
    /\ pc = [t \in Threads |-> "idle"]
    /\ call = [t \in Threads |-> NoCall]
    /\ kind = [t \in Threads |-> "-"]
    /\ i = [t \in Threads |-> 0]
    /\ tl = [t \in Threads |-> "none"]
    /\ bl = [t \in Threads |-> -1]
    /\ lcl = [t \in Threads |-> 0]
    /\ ret = [t \in Threads |-> NoRet]
    /\ calls = 0
    /\ pre = NoPre
    /\ shadow = InitShadow(table)
    /\ pos = [t \in Threads |-> 0]
    /\ iter = NoIter
    /\ auth = a
    /\ db = NoDb

\* the map holds the table t0 and no call has been made
InitWith(t0) == InitWithAuth(t0, NoAuth)

Init == \E t0 \in InitTables : InitWith(t0)

(***************************************************************************)
(* A call begins.                                                          *)
(***************************************************************************)
Invoke(t, o, k, v) ==
    /\ pc[t] = "idle"
    /\ call' = [call EXCEPT ![t] = [op |-> o, key |-> k, val |-> v]]
    /\ pc' = [pc EXCEPT ![t] = IF o = "clear" THEN "write" ELSE "read"]
    /\ kind' = [kind EXCEPT ![t] = IF o = "clear" THEN "-" ELSE "lookup"]
    /\ UNCHANGED <<mapVars, i, tl, bl, lcl, ret>>

\* the calls a thread may make with the keys 1..n
Invocations(n) ==
    {[op |-> o, key |-> k, val |-> v] :
        o \in {"insert", "update", "get_mut"}, k \in 1..n, v \in Vals}
    \cup {[op |-> o, key |-> k, val |-> 0] :
            o \in {"remove", "true_if_removed", "get", "contains_key"}, k \in 1..n}
    \cup {[op |-> "clear", key |-> 0, val |-> 0]}

(***************************************************************************)
(* self.table.read() of get, contains_key, insert, update, remove and      *)
(* true_if_removed.                                                        *)
(***************************************************************************)
TableRead(t) ==
    /\ pc[t] = "read"
    /\ TableReadFree(t)
    /\ tl' = [tl EXCEPT ![t] = "r"]
    /\ i' = [i EXCEPT ![t] = 0]
    /\ pc' = [pc EXCEPT ![t] = "scan"]
    /\ UNCHANGED <<mapVars, call, kind, bl, lcl, ret, histVars>>

\* the thread unwinds: its guards are dropped, the call never returns
Unwind(t) ==
    /\ pc' = [pc EXCEPT ![t] = "panicked"]
    /\ ret' = [ret EXCEPT ![t] = RetPanic]
    /\ tl' = [tl EXCEPT ![t] = "none"]
    /\ bl' = [bl EXCEPT ![t] = -1]

(***************************************************************************)
(* One iteration of the loop of Table::scan / Table::scan_mut: lock the    *)
(* bucket, test the predicate, return the lock on a match and drop it      *)
(* otherwise; panic when the loop has visited every bucket.                *)
(***************************************************************************)
Probe(t) ==
    /\ pc[t] = "scan"
    /\ IF i[t] >= BucketCount
       THEN Unwind(t) /\ UNCHANGED <<mapVars, call, kind, i, lcl, histVars>>
       ELSE LET j == ProbeIndex(table, call[t].key, i[t]) IN
            /\ IF ScanMut(t) THEN BucketWriteFree(t, j) ELSE BucketReadFree(t, j)
            /\ IF Predicate(kind[t], call[t].key, BucketAt(table, j))
               THEN /\ bl' = [bl EXCEPT ![t] = j]
                    /\ pc' = [pc EXCEPT ![t] = "found"]
                    /\ UNCHANGED i
               ELSE /\ i' = [i EXCEPT ![t] = i[t] + 1]
                    /\ UNCHANGED <<bl, pc>>
            /\ UNCHANGED <<mapVars, call, kind, tl, lcl, ret, histVars>>

\* a return that drops the table lock and keeps the bucket lock
FinishHoldingBucket(t, r) ==
    /\ pc' = [pc EXCEPT ![t] = "ret"]
    /\ ret' = [ret EXCEPT ![t] = r]
    /\ tl' = [tl EXCEPT ![t] = "none"]
    /\ UNCHANGED bl

\* the call returns r and drops the guards it does not hand to the caller
Finish(t, r) ==
    /\ pc' = [pc EXCEPT ![t] = "ret"]
    /\ ret' = [ret EXCEPT ![t] = r]
    /\ tl' = [tl EXCEPT ![t] = "none"]
    /\ bl' = [bl EXCEPT ![t] = -1]

(***************************************************************************)
(* Skymap::contains_key, called by the user or by insert: the bucket the   *)
(* lookup returned is occupied or not.                                     *)
(***************************************************************************)
ContainsKeyDone(t) ==
    /\ pc[t] = "found"
    /\ kind[t] = "lookup"
    /\ call[t].op \in {"contains_key", "insert"}
    /\ LET present == ~is_available(BucketAt(table, bl[t])) IN
       IF call[t].op = "contains_key" \/ present
       THEN /\ Finish(t, RetBool(call[t].op = "contains_key" /\ present))
            /\ UNCHANGED kind
       ELSE /\ pc' = [pc EXCEPT ![t] = "read"]
            /\ kind' = [kind EXCEPT ![t] = "free"]
            /\ tl' = [tl EXCEPT ![t] = "none"]
            /\ bl' = [bl EXCEPT ![t] = -1]
            /\ UNCHANGED ret
    /\ UNCHANGED <<mapVars, call, i, lcl, histVars>>

(***************************************************************************)
(* Skymap::get: Some(ReadGuard) on an occupied bucket, the guard keeping   *)
(* the table and bucket read locks until the caller drops it; else None.   *)
(***************************************************************************)
GetDone(t) ==
    /\ pc[t] = "found"
    /\ call[t].op = "get"
    /\ LET b == BucketAt(table, bl[t]) IN
       IF b.st = "Contains"
       THEN /\ pc' = [pc EXCEPT ![t] = "ret"]
            /\ ret' = [ret EXCEPT ![t] = RetSome(b.v)]
            /\ UNCHANGED <<tl, bl>>
       ELSE Finish(t, RetNone)
    /\ UNCHANGED <<mapVars, call, kind, i, lcl, histVars>>

(***************************************************************************)
(* Skymap::get_mut: Some(WriteGuard) on an occupied bucket, the guard      *)
(* keeping the table read lock and the bucket write lock until the caller  *)
(* drops it; else None.  call[t].val is the value the caller then writes   *)
(* through the guard.                                                      *)
(***************************************************************************)
GetMutDone(t) ==
    /\ pc[t] = "found"
    /\ call[t].op = "get_mut"
    /\ LET b == BucketAt(table, bl[t]) IN
       IF b.st = "Contains"
       THEN /\ pc' = [pc EXCEPT ![t] = "ret"]
            /\ ret' = [ret EXCEPT ![t] = RetSome(b.v)]
            /\ UNCHANGED <<tl, bl>>
       ELSE Finish(t, RetNone)
    /\ UNCHANGED <<mapVars, call, kind, i, lcl, histVars>>

\* the value of a bucket while a store to it is under way: a value that is
\* neither the old nor the new one
Torn == 0

(***************************************************************************)
(* The holder of a WriteGuard stores call[t].val through deref_mut.  The   *)
(* store is not one access to memory: the bucket holds a torn value in     *)
(* between.  A guard is dropped after at most MaxStores stores.            *)
(***************************************************************************)
GuardStore(t) ==
    /\ call[t].op = "get_mut"
    /\ ret[t].kind = "Some"
    /\ \/ /\ pc[t] = "ret"
          /\ lcl[t] < MaxStores
          /\ table' = SetBucket(table, bl[t], Contains(BucketAt(table, bl[t]).k, Torn))
          /\ pc' = [pc EXCEPT ![t] = "storing"]
          /\ ret' = [ret EXCEPT ![t] = RetSome(Torn)]
          /\ lcl' = [lcl EXCEPT ![t] = lcl[t] + 1]
       \/ /\ pc[t] = "storing"
          /\ table' = SetBucket(table, bl[t], Contains(BucketAt(table, bl[t]).k, call[t].val))
          /\ pc' = [pc EXCEPT ![t] = "ret"]
          /\ ret' = [ret EXCEPT ![t] = RetSome(call[t].val)]
          /\ UNCHANGED lcl
    /\ UNCHANGED <<len, build, call, kind, i, tl, bl, histVars>>

\* an update that leaves the value as it was
UpdatedBucketKept(b, v) == b

\* `*value = val` of update
UpdatedBucket(b, v) == Contains(b.k, v)

(***************************************************************************)
(* Skymap::update.                                                         *)
(***************************************************************************)
UpdateDone(t) ==
    /\ pc[t] = "found"
    /\ call[t].op = "update"
    /\ LET b == BucketAt(table, bl[t]) IN
       IF b.st = "Contains"
       THEN /\ table' = SetBucket(table, bl[t], UpdatedBucket(b, call[t].val))
            /\ Finish(t, RetBool(TRUE))
       ELSE /\ Finish(t, RetBool(FALSE))
            /\ UNCHANGED table
    /\ UNCHANGED <<len, build, call, kind, i, lcl, histVars>>

\* a remove that leaves the bucket as if it had never been used
RemovedBucketEmptied == Empty

\* what mem::replace leaves in the bucket of a removed key
RemovedBucket == Removed

\* a remove that does not count: len keeps its value
FetchSubForgotten(l) == l

\* len.fetch_sub(1) of remove and true_if_removed
FetchSub(l) == l - 1

(***************************************************************************)
(* Skymap::remove and Skymap::true_if_removed.                             *)
(***************************************************************************)
RemoveDone(t) ==
    /\ pc[t] = "found"
    /\ call[t].op \in {"remove", "true_if_removed"}
    /\ LET b == BucketAt(table, bl[t]) IN
       IF is_available(b)
       THEN /\ Finish(t, IF call[t].op = "remove" THEN RetNone ELSE RetBool(FALSE))
            /\ UNCHANGED <<table, len>>
       ELSE /\ table' = SetBucket(table, bl[t], RemovedBucket)
            /\ len' = FetchSub(len)
            /\ Finish(t, IF call[t].op = "remove" THEN RetSome(b.v) ELSE RetBool(TRUE))
    /\ UNCHANGED <<build, call, kind, i, lcl, histVars>>

(***************************************************************************)
(* Skymap::insert after contains_key said no: the bucket find_free_mut     *)
(* returned takes the pair and its lock is dropped.                        *)
(***************************************************************************)
InsertWrite(t) ==
    /\ pc[t] = "found"
    /\ call[t].op = "insert"
    /\ kind[t] = "free"
    /\ table' = SetBucket(table, bl[t], Contains(call[t].key, call[t].val))
    /\ bl' = [bl EXCEPT ![t] = -1]
    /\ pc' = [pc EXCEPT ![t] = "fetch_add"]
    /\ UNCHANGED <<len, build, call, kind, i, tl, lcl, ret, histVars>>

\* an insert that does not count: len keeps its value
FetchAddForgotten(l) == l

\* len.fetch_add(1) of reshard_table
FetchAdd(l) == l + 1

(***************************************************************************)
(* Skymap::reshard_table: `let len = self.len.fetch_add(1) + 1`.  The      *)
(* atomic wraps; the `+ 1` overflows when the counter held usize::MAX.     *)
(***************************************************************************)
ReshardAdd(t) ==
    /\ pc[t] = "fetch_add"
    /\ len' = FetchAdd(len)
    /\ IF len = -1
       THEN \E b \in Builds :
              /\ IsBuild(b)
              /\ IF b = "debug"
                 THEN Unwind(t) /\ UNCHANGED lcl
                 ELSE /\ lcl' = [lcl EXCEPT ![t] = 0]
                      /\ pc' = [pc EXCEPT ![t] = "check"]
                      /\ UNCHANGED <<ret, tl, bl>>
       ELSE /\ lcl' = [lcl EXCEPT ![t] = len + 1]
            /\ pc' = [pc EXCEPT ![t] = "check"]
            /\ UNCHANGED <<build, ret, tl, bl>>
    /\ UNCHANGED <<table, call, kind, i, histVars>>

\* a rehash only once len exceeds the bucket count
OverLoadWhenFull(l, count) == ULess(count, l)

\* the rehash condition of reshard_table
OverLoad(l, count) == ULess(count * MAX_LOAD_FACTOR_TOP, l * MAX_LOAD_FACTOR_DENOM)

(***************************************************************************)
(* Skymap::reshard_table: the load-factor test, then the read lock is      *)
(* dropped, before reserve_space or as insert returns true.                *)
(***************************************************************************)
ReshardCheck(t) ==
    /\ pc[t] = "check"
    /\ IF Wrapped(lcl[t])
       THEN \E b \in Builds :
              /\ IsBuild(b)
              /\ IF b = "debug"
                 THEN Unwind(t)
                 ELSE /\ pc' = [pc EXCEPT ![t] = "reserve"]
                      /\ tl' = [tl EXCEPT ![t] = "none"]
                      /\ UNCHANGED <<ret, bl>>
       ELSE /\ IF OverLoad(lcl[t], BucketCount)
               THEN /\ pc' = [pc EXCEPT ![t] = "reserve"]
                    /\ tl' = [tl EXCEPT ![t] = "none"]
                    /\ UNCHANGED <<ret, bl>>
               ELSE Finish(t, RetBool(TRUE))
            /\ UNCHANGED build
    /\ UNCHANGED <<table, len, call, kind, i, lcl, histVars>>

\* a target of twice the length
ReserveTargetDoubled(l, for_how_many) == (l + for_how_many) * 2

\* `(self.len() + for_how_many) * MULTIPLICATION_FACTOR` of reserve_space
ReserveTarget(l, for_how_many) == (l + for_how_many) * MULTIPLICATION_FACTOR

(***************************************************************************)
(* Skymap::reserve_space(1): the target length from a fresh load of len.   *)
(***************************************************************************)
ReserveLen(t) ==
    /\ pc[t] = "reserve"
    /\ IF Wrapped(len)
       THEN \E b \in Builds :
              /\ IsBuild(b)
              /\ IF b = "debug"
                 THEN Unwind(t) /\ UNCHANGED lcl
                 ELSE /\ lcl' = [lcl EXCEPT ![t] = ReserveTarget(len, 1)]
                      /\ pc' = [pc EXCEPT ![t] = "write"]
                      /\ UNCHANGED <<ret, tl, bl>>
       ELSE /\ lcl' = [lcl EXCEPT ![t] = ReserveTarget(len, 1)]
            /\ pc' = [pc EXCEPT ![t] = "write"]
            /\ UNCHANGED <<build, ret, tl, bl>>
    /\ UNCHANGED <<table, len, call, kind, i, histVars>>

(***************************************************************************)
(* self.table.write() of reserve_space and clear.                          *)
(***************************************************************************)
TableWrite(t) ==
    /\ pc[t] = "write"
    /\ TableWriteFree(t)
    /\ tl' = [tl EXCEPT ![t] = "w"]
    /\ pc' = [pc EXCEPT ![t] = IF call[t].op = "clear" THEN "swap" ELSE "fill"]
    /\ UNCHANGED <<mapVars, call, kind, i, bl, lcl, ret, histVars>>

\* a rehash into a table with one bucket fewer
ReservedShrunk(t, target, seed) ==
    IF ULess(Len(t.buckets), target)
    THEN FillFrom(TableNew(Len(t.buckets) - 1, seed), t)
    ELSE t

\* the table reserve_space leaves behind the write lock
Reserved(t, target, seed) ==
    IF ULess(Len(t.buckets), target)
    THEN FillFrom(TableWithCapacity(target, seed), t)
    ELSE t

(***************************************************************************)
(* Skymap::reserve_space under the write lock: a table for `len` keys with *)
(* a fresh hasher replaces the table and is filled from it, unless the     *)
(* table has that many buckets already.  A wrapped target cannot be        *)
(* allocated: with_capacity overflows or the allocation fails.             *)
(***************************************************************************)
ReserveFill(t) ==
    /\ pc[t] = "fill"
    /\ IF Wrapped(lcl[t])
       THEN Unwind(t) /\ UNCHANGED table
       ELSE /\ \E seed \in Seeds : table' = Reserved(table, lcl[t], seed)
            /\ Finish(t, RetBool(TRUE))
    /\ UNCHANGED <<len, build, call, kind, i, lcl, histVars>>

\* the table of Skymap::new()
SkymapNew(seed) == TableWithCapacity(DEF_INIT_CAPACITY, seed)

\* the table clear() leaves in the map
ClearedTable(seed) == TableNew(DEF_INIT_CAPACITY, seed)

\* the value clear() swaps into len
ClearedLen == 0

(***************************************************************************)
(* Skymap::clear under the write lock.                                     *)
(***************************************************************************)
ClearSwap(t) ==
    /\ pc[t] = "swap"
    /\ \E seed \in Seeds : table' = ClearedTable(seed)
    /\ len' = ClearedLen
    /\ Finish(t, RetUnit)
    /\ UNCHANGED <<build, call, kind, i, lcl, histVars>>

(***************************************************************************)
(* The caller has the result; a ReadGuard it got is dropped.               *)
(***************************************************************************)
Return(t) ==
    /\ pc[t] = "ret"
    /\ pc' = [pc EXCEPT ![t] = "idle"]
    /\ call' = [call EXCEPT ![t] = NoCall]
    /\ kind' = [kind EXCEPT ![t] = "-"]
    /\ i' = [i EXCEPT ![t] = 0]
    /\ lcl' = [lcl EXCEPT ![t] = 0]
    /\ ret' = [ret EXCEPT ![t] = NoRet]
    /\ tl' = [tl EXCEPT ![t] = "none"]
    /\ bl' = [bl EXCEPT ![t] = -1]
    /\ UNCHANGED mapVars

\* the steps of a running call
Step(t) ==
    \/ TableRead(t)
    \/ Probe(t)
    \/ ContainsKeyDone(t)
    \/ GetDone(t)
    \/ GetMutDone(t)
    \/ GuardStore(t)
    \/ UpdateDone(t)
    \/ RemoveDone(t)
    \/ InsertWrite(t)
    \/ ReshardAdd(t)
    \/ ReshardCheck(t)
    \/ ReserveLen(t)
    \/ TableWrite(t)
    \/ ReserveFill(t)
    \/ ClearSwap(t)

(***************************************************************************)
(* The concurrent specification: NumThreads threads share the map and      *)
(* make MaxCalls calls between them.                                       *)
(***************************************************************************)
Call(t) ==
    /\ calls < MaxCalls
    /\ \E c \in Invocations(NumConcKeys) : Invoke(t, c.op, c.key, c.val)
    /\ calls' = calls + 1
    /\ UNCHANGED <<pre, shadow, clientVars>>

Done(t) == Return(t) /\ UNCHANGED histVars

Next == \E t \in Callers : Call(t) \/ Step(t) \/ Done(t)

Spec == Init /\ [][Next]_vars

\* fair scheduling: a thread that can take a step of its call takes one, and
\* a caller that has a result takes it and drops the guard it was given
FairSpec == Spec /\ \A t \in Callers : WF_vars(Step(t)) /\ WF_vars(Done(t))

(***************************************************************************)
(* The sequential specification: one thread, any number of calls.  The     *)
(* history variables record the map as each call found it and the value    *)
(* the returned calls give each key.                                       *)
(***************************************************************************)
Main == CHOOSE t \in Threads : \A u \in Threads : t <= u

SeqCall ==
    /\ \E c \in Invocations(NumKeys) : Invoke(Main, c.op, c.key, c.val)
    /\ pre' = [table |-> table, len |-> len]
    /\ UNCHANGED <<calls, shadow, clientVars>>

\* the value of each key according to the calls that have returned
Recorded(sh, c, r) ==
    CASE c.op \in {"insert", "update"} /\ r = RetBool(TRUE) -> [sh EXCEPT ![c.key] = c.val]
      [] c.op = "get_mut" /\ r.kind = "Some" -> [sh EXCEPT ![c.key] = r.v]
      [] c.op = "remove" /\ r.kind = "Some" -> [sh EXCEPT ![c.key] = 0]
      [] c.op = "true_if_removed" /\ r = RetBool(TRUE) -> [sh EXCEPT ![c.key] = 0]
      [] c.op = "clear" -> [k \in AllKeys |-> 0]
      [] OTHER -> sh

SeqDone ==
    /\ Return(Main)
    /\ shadow' = Recorded(shadow, call[Main], ret[Main])
    /\ pre' = NoPre
    /\ UNCHANGED <<calls, clientVars>>

SeqNext == SeqCall \/ Step(Main) \/ SeqDone

SeqSpec == Init /\ [][SeqNext]_vars

(***************************************************************************)
(* The specification of concurrent inserts: every thread inserts one key   *)
(* of its own, thread t the key t, into a map that holds Prefill keys or,  *)
(* one more, as many as its load factor allows.  A thread that has its     *)
(* result keeps it and makes no further call.                              *)
(***************************************************************************)
ValueOf(t) == 1 + (t % NumVals)

InsertInit == InitWith(Prefilled(1, Prefill + 1))

InsertCall(t) ==
    /\ Invoke(t, "insert", t, ValueOf(t))
    /\ UNCHANGED histVars

InsertDone(t) ==
    /\ pc[t] = "ret"
    /\ pc' = [pc EXCEPT ![t] = "finished"]
    /\ UNCHANGED <<mapVars, call, kind, i, tl, bl, lcl, ret, histVars>>

\* the steps of a running insert call
InsertStep(t) ==
    \/ TableRead(t)
    \/ Probe(t)
    \/ ContainsKeyDone(t)
    \/ InsertWrite(t)
    \/ ReshardAdd(t)
    \/ ReshardCheck(t)
    \/ ReserveLen(t)
    \/ TableWrite(t)
    \/ ReserveFill(t)

InsertNext == \E t \in Threads : InsertCall(t) \/ InsertStep(t) \/ InsertDone(t)

InsertSpec == InsertInit /\ [][InsertNext]_vars

(***************************************************************************)
(* The specification of guards: two client threads run the programs below  *)
(* on key 1, over a map that holds key 2, whose hash is the same.  The     *)
(* Holder ends with a get or a get_mut and keeps the guard it is given     *)
(* until it drops it.                                                      *)
(***************************************************************************)
Holder == Main + 1

Invocation(o, k, v) == [op |-> o, key |-> k, val |-> v]

\* GuardProgram(t)[n]: the calls thread t may make as its n-th call
GuardProgram(t) ==
    IF t = Main
    THEN << {Invocation("insert", 1, 1)},
            {Invocation("update", 1, 2), Invocation("remove", 1, 0)} >>
    ELSE IF t = Holder
    THEN << {Invocation("insert", 1, 2)},
            {Invocation("remove", 2, 0)},
            {Invocation("get", 1, 0), Invocation("get_mut", 1, 1)} >>
    ELSE << >>

CollidingSeed == CHOOSE s \in Seeds : Hash(s, 1) = Hash(s, 2)

GuardInit == InitWith(InsertAlone(TableWithCapacity(Prefill, CollidingSeed), 2, 1))

GuardCall(t) ==
    /\ pos[t] < Len(GuardProgram(t))
    /\ \E c \in GuardProgram(t)[pos[t] + 1] : Invoke(t, c.op, c.key, c.val)
    /\ pos' = [pos EXCEPT ![t] = pos[t] + 1]
    /\ UNCHANGED <<calls, pre, shadow, iter, auth, db>>

GuardDone(t) == Return(t) /\ UNCHANGED histVars

\* the steps of the calls of the programs
GuardStep(t) ==
    \/ TableRead(t)
    \/ Probe(t)
    \/ ContainsKeyDone(t)
    \/ GetDone(t)
    \/ GetMutDone(t)
    \/ GuardStore(t)
    \/ UpdateDone(t)
    \/ RemoveDone(t)
    \/ InsertWrite(t)
    \/ ReshardAdd(t)
    \/ ReshardCheck(t)

GuardNext == \E t \in Threads : GuardCall(t) \/ GuardStep(t) \/ GuardDone(t)

GuardSpec == GuardInit /\ [][GuardNext]_vars

\* the client programs under fair scheduling
FairGuardSpec == GuardSpec /\ \A t \in Threads : WF_vars(GuardStep(t)) /\ WF_vars(GuardDone(t))

(***************************************************************************)
(* The specification of snapshot iteration: a client clones the table of   *)
(* a map that is at rest (Clone for Table, skymap.rs:315-326), turns the   *)
(* clone into a TableIterator (IntoIterator, skymap.rs:381-387) and calls  *)
(* next() until it returns None.  The map holds the table left by the      *)
(* inserts of up to Prefill + 1 keys and the removal of the first of them. *)
(***************************************************************************)
\* remove(key) on a map at rest
RemoveAlone(t, key) ==
    LET j == Scan(t, "lookup", key) IN
    IF is_available(BucketAt(t, j)) THEN t ELSE SetBucket(t, j, Removed)

\* the table t after the first m of the keys inserted into it were removed
RECURSIVE Without(_, _)
Without(t, m) ==
    IF m = 0 THEN t ELSE RemoveAlone(Without(t, m - 1), NumKeys + m)

Snapshots == {Without(Prefilled(s, n), m) : s \in Seeds, n \in 0..(Prefill + 1), m \in 0..MaxRemoved}

IterInit == \E t0 \in Snapshots : InitWith(t0)

\* Table::clone: every bucket is read and copied, the hasher is copied
TableClone(t) ==
    [buckets |-> [j \in 1..Len(t.buckets) |-> t.buckets[j]], hasher |-> t.hasher]

\* table.clone().into_iter()
IntoIter ==
    /\ iter = NoIter
    /\ iter' = [buckets |-> TableClone(table).buckets, out |-> <<>>, pops |-> 0, over |-> FALSE]
    /\ UNCHANGED <<mapVars, threadVars, calls, pre, shadow, pos, auth, db>>

\* a bucket that yields every pair it has kept a trace of
YieldsUnlessEmpty(b) == ~is_empty(b)

\* `if let HashBucket::Contains(key, value) = bucket.into_inner()`
Yields(b) == b.st = "Contains"

\* the loop of TableIterator::next: buckets are popped off the end of the
\* vector until one yields; the result is the buckets left, the item
\* returned (<< >> for None) and the number of buckets popped
RECURSIVE PopLoop(_, _)
PopLoop(buckets, popped) ==
    IF buckets = << >>
    THEN [buckets |-> buckets, item |-> << >>, pops |-> popped]
    ELSE LET bucket == buckets[Len(buckets)]
             rest == SubSeq(buckets, 1, Len(buckets) - 1)
         IN  IF Yields(bucket)
             THEN [buckets |-> rest, item |-> <<bucket.k, bucket.v>>, pops |-> popped + 1]
             ELSE PopLoop(rest, popped + 1)

\* TableIterator::next
IterNext ==
    /\ ~iter.over
    /\ LET r == PopLoop(iter.buckets, 0) IN
       iter' = [buckets |-> r.buckets,
                out |-> IF r.item = << >> THEN iter.out ELSE Append(iter.out, r.item),
                pops |-> iter.pops + r.pops,
                over |-> r.item = << >>]
    /\ UNCHANGED <<mapVars, threadVars, calls, pre, shadow, pos, auth, db>>

IterSpecNext == IntoIter \/ IterNext

IterSpec == IterInit /\ [][IterSpecNext]_vars

(***************************************************************************)
(* The specification of the authentication provider (auth/provider.rs).    *)
(* The providers are clones of one AuthProvider: every thread has its own  *)
(* whoami, all share the origin key and the authmap.  The authmap is the   *)
(* Skymap: true_if_insert is insert, true_if_removed is true_if_removed.   *)
(* The providers make MaxAuthCalls calls of claim_root, logout and         *)
(* delete_user between them.  The authmap starts empty (release build) or  *)
(* with the users root and testuser (debug build, provider.rs:98-122).     *)
(***************************************************************************)
USER_ROOT == 1
TestUser == USER_ROOT + 1
Users == {USER_ROOT, TestUser}

\* AuthProvider::verify_origin over get_origin
VerifyOrigin(origin_key) == IF Origin = origin_key THEN "Ok" ELSE "BadCredentials"

\* Coremap::true_if_insert and Coremap::true_if_removed on the Map
TrueIfInsert(t, id, store) == Invoke(t, "insert", id, store)
TrueIfRemoved(t, id) == Invoke(t, "true_if_removed", id, 0)

\* AuthProvider::new in a debug build
TestsuiteAuthmap(t0) == InsertAlone(InsertAlone(t0, USER_ROOT, 1), TestUser, 1)

AuthInit ==
    \E s \in Seeds, debug \in BOOLEAN :
        InitWith(IF debug THEN TestsuiteAuthmap(TableWithCapacity(Prefill, s))
                 ELSE TableWithCapacity(Prefill, s))

\* provider t is in call o
Entered(t, o) ==
    [auth EXCEPT !.op[t] = o, !.was[t] = auth.whoami[t], !.res[t] = "-"]

\* provider t has the result r of call o without a call into the authmap
Answered(t, o, r) ==
    /\ auth' = [Entered(t, o) EXCEPT !.res[t] = r]
    /\ UNCHANGED <<mapVars, threadVars>>

\* claim_root up to the call of true_if_insert
ClaimRoot(t) ==
    \E origin_key \in OriginKeys, store \in Vals :
        IF VerifyOrigin(origin_key) = "Ok"
        THEN /\ TrueIfInsert(t, USER_ROOT, store)
             /\ auth' = Entered(t, "claim_root")
        ELSE Answered(t, "claim_root", VerifyOrigin(origin_key))

\* claim_root after true_if_insert
Claimed(inserted) == IF inserted THEN "Ok" ELSE "AlreadyClaimed"

\* ensure_root over are_you_root
EnsureRoot(t) ==
    IF auth.whoami[t] = 0 THEN "Perms"
    ELSE IF auth.whoami[t] = USER_ROOT THEN "Ok" ELSE "Perms"

\* delete_user up to the call of true_if_removed
DeleteUser(t) ==
    \E user \in Users :
        IF EnsureRoot(t) # "Ok" THEN Answered(t, "delete_user", EnsureRoot(t))
        ELSE IF user = USER_ROOT THEN Answered(t, "delete_user", "FailedToDelete")
        ELSE /\ TrueIfRemoved(t, user)
             /\ auth' = Entered(t, "delete_user")

\* logout
Logout(t) ==
    /\ auth' = [Entered(t, "logout") EXCEPT
                    !.whoami[t] = 0,
                    !.res[t] = IF auth.whoami[t] = 0 THEN "Perms" ELSE "Ok"]
    /\ UNCHANGED <<mapVars, threadVars>>

AuthCall(t) ==
    /\ pc[t] = "idle"
    /\ calls < MaxAuthCalls
    /\ calls' = calls + 1
    /\ ClaimRoot(t) \/ DeleteUser(t) \/ Logout(t)
    /\ UNCHANGED <<pre, shadow, pos, iter, db>>

\* the steps of the calls into the authmap
AuthStep(t) ==
    \/ TableRead(t)
    \/ Probe(t)
    \/ ContainsKeyDone(t)
    \/ InsertWrite(t)
    \/ ReshardAdd(t)
    \/ ReshardCheck(t)
    \/ RemoveDone(t)

\* the rest of claim_root and delete_user: the provider logs the claimant
\* in as root, the caller gets the token or the error
AuthDone(t) ==
    /\ Return(t)
    /\ LET inserted == ret[t] = RetBool(TRUE) IN
       auth' = IF auth.op[t] = "claim_root"
               THEN [auth EXCEPT
                        !.res[t] = Claimed(inserted),
                        !.whoami[t] = IF Claimed(inserted) = "Ok" THEN USER_ROOT ELSE @,
                        !.claimed = IF Claimed(inserted) = "Ok" THEN @ + 1 ELSE @]
               ELSE [auth EXCEPT
                        !.res[t] = IF inserted THEN "Ok" ELSE "BadCredentials"]
    /\ UNCHANGED <<calls, pre, shadow, pos, iter, db>>

AuthNext == \E t \in Callers : AuthCall(t) \/ AuthStep(t) \/ AuthDone(t)

AuthSpec == AuthInit /\ [][AuthNext]_vars

(***************************************************************************)
(* The specification of all the operations of the provider.  The providers *)
(* share an origin key or have none (new_disabled); each makes calls of    *)
(* claim_root, claim_user, login, logout, regenerate,                      *)
(* regenerate_using_origin, delete_user, collect_usernames and whoami, or  *)
(* is replaced by a clone of another provider.  On the authmap             *)
(* true_if_update is the Map's update and get its get; a token verifies    *)
(* against the stored value equal to it.                                   *)
(***************************************************************************)
NoOrigin == "none"

\* a claimant or account that try_auth_id refuses
IllegalUser == 0
Claimants == Users \cup {IllegalUser}

\* AuthProvider::ensure_enabled
EnsureEnabled == IF auth.origin = NoOrigin THEN "Disabled" ELSE "Ok"

\* AuthProvider::verify_origin over get_origin, of these providers
VerifyOriginOf(origin_key) ==
    IF auth.origin = NoOrigin THEN "Disabled"
    ELSE IF auth.origin = origin_key THEN "Ok" ELSE "BadCredentials"

\* an ensure_root that lets every user that is logged in pass
EnsureRootAnyUser(t) ==
    IF EnsureEnabled # "Ok" THEN EnsureEnabled
    ELSE IF auth.whoami[t] = 0 THEN "Perms" ELSE "Ok"

\* AuthProvider::ensure_root over are_you_root, which starts with
\* ensure_enabled
EnsureRootOf(t) == IF EnsureEnabled # "Ok" THEN EnsureEnabled ELSE EnsureRoot(t)

\* AuthProvider::try_auth_id
TryAuthId(authid) == IF authid = IllegalUser THEN "IllegalUsername" ELSE "Ok"

\* keys::verify_key
VerifyKey(token, token_hash) == token = token_hash

\* Coremap::true_if_update and Coremap::get on the Map
TrueIfUpdate(t, id, store) == Invoke(t, "update", id, store)
AuthmapGet(t, account, token) == Invoke(t, "get", account, token)

\* provider t is in call o with the user argument a
EnteredWith(t, o, a) == [Entered(t, o) EXCEPT !.arg[t] = a]

\* provider t has the result r of call o without a call into the authmap
AnsweredWith(t, o, a, r) ==
    /\ auth' = [EnteredWith(t, o, a) EXCEPT !.res[t] = r]
    /\ UNCHANGED <<mapVars, threadVars>>

\* claim_root up to the call of true_if_insert
ProviderClaimRoot(t) ==
    \E origin_key \in OriginKeys, store \in Vals :
        IF VerifyOriginOf(origin_key) = "Ok"
        THEN /\ TrueIfInsert(t, USER_ROOT, store)
             /\ auth' = EnteredWith(t, "claim_root", USER_ROOT)
        ELSE AnsweredWith(t, "claim_root", USER_ROOT, VerifyOriginOf(origin_key))

\* claim_user up to the call of true_if_insert
ClaimUser(t) ==
    \E claimant \in Claimants, store \in Vals :
        IF EnsureRootOf(t) # "Ok"
        THEN AnsweredWith(t, "claim_user", claimant, EnsureRootOf(t))
        ELSE IF TryAuthId(claimant) # "Ok"
        THEN AnsweredWith(t, "claim_user", claimant, TryAuthId(claimant))
        ELSE /\ TrueIfInsert(t, claimant, store)
             /\ auth' = EnteredWith(t, "claim_user", claimant)

\* login up to the call of get
Login(t) ==
    \E account \in Users, token \in Vals :
        IF EnsureEnabled # "Ok"
        THEN AnsweredWith(t, "login", account, EnsureEnabled)
        ELSE /\ AuthmapGet(t, account, token)
             /\ auth' = EnteredWith(t, "login", account)

\* _regenerate up to the call of true_if_update
RegenerateAccount(t, o, account) ==
    \E store \in Vals :
        IF TryAuthId(account) # "Ok"
        THEN AnsweredWith(t, o, account, TryAuthId(account))
        ELSE /\ TrueIfUpdate(t, account, store)
             /\ auth' = EnteredWith(t, o, account)

\* regenerate
Regenerate(t) ==
    \E account \in Claimants :
        IF EnsureRootOf(t) # "Ok"
        THEN AnsweredWith(t, "regenerate", account, EnsureRootOf(t))
        ELSE RegenerateAccount(t, "regenerate", account)

\* regenerate_using_origin
RegenerateUsingOrigin(t) ==
    \E origin_key \in OriginKeys, account \in Claimants :
        IF VerifyOriginOf(origin_key) # "Ok"
        THEN AnsweredWith(t, "regenerate_using_origin", account, VerifyOriginOf(origin_key))
        ELSE RegenerateAccount(t, "regenerate_using_origin", account)

\* logout
ProviderLogout(t) ==
    IF EnsureEnabled # "Ok"
    THEN AnsweredWith(t, "logout", 0, EnsureEnabled)
    ELSE /\ auth' = [EnteredWith(t, "logout", 0) EXCEPT
                        !.whoami[t] = 0,
                        !.res[t] = IF auth.whoami[t] = 0 THEN "Perms" ELSE "Ok"]
         /\ UNCHANGED <<mapVars, threadVars>>

\* a test that takes no user for root
IsRootNever(user) == FALSE

\* `user.eq(&USER_ROOT)` of delete_user
IsRoot(user) == user = USER_ROOT

\* delete_user up to the call of true_if_removed
ProviderDeleteUser(t) ==
    \E user \in Users :
        IF EnsureRootOf(t) # "Ok"
        THEN AnsweredWith(t, "delete_user", user, EnsureRootOf(t))
        ELSE IF IsRoot(user)
        THEN AnsweredWith(t, "delete_user", user, "FailedToDelete")
        ELSE /\ TrueIfRemoved(t, user)
             /\ auth' = EnteredWith(t, "delete_user", user)

\* collect_usernames: the names are read off the authmap
CollectUsernames(t) ==
    AnsweredWith(t, "collect_usernames", 0, EnsureRootOf(t))

\* whoami
Whoami(t) ==
    AnsweredWith(t, "whoami", 0,
                 IF EnsureEnabled # "Ok" THEN EnsureEnabled
                 ELSE IF auth.whoami[t] = 0 THEN "Perms" ELSE "Ok")

\* a clone that is logged in as its original is
ClonedWhoamiKept(u) == auth.whoami[u]

\* the whoami of a clone of provider u
ClonedWhoami(u) == 0

\* provider t is dropped and a clone of another provider takes its place
Clone(t) ==
    /\ \E u \in Callers \ {t} :
          auth' = [EnteredWith(t, "clone", 0) EXCEPT
                      !.whoami[t] = ClonedWhoami(u), !.res[t] = "Ok"]
    /\ UNCHANGED <<mapVars, threadVars>>

ProviderCall(t) ==
    /\ pc[t] = "idle"
    /\ calls < MaxProviderCalls
    /\ calls' = calls + 1
    /\ \/ ProviderClaimRoot(t)
       \/ ClaimUser(t)
       \/ Login(t)
       \/ Regenerate(t)
       \/ RegenerateUsingOrigin(t)
       \/ ProviderLogout(t)
       \/ ProviderDeleteUser(t)
       \/ CollectUsernames(t)
       \/ Whoami(t)
       \/ Clone(t)
    /\ UNCHANGED <<pre, shadow, pos, iter, db>>

\* the steps of the calls into the authmap
ProviderStep(t) ==
    \/ TableRead(t)
    \/ Probe(t)
    \/ ContainsKeyDone(t)
    \/ InsertWrite(t)
    \/ ReshardAdd(t)
    \/ ReshardCheck(t)
    \/ RemoveDone(t)
    \/ UpdateDone(t)
    \/ GetDone(t)

\* login after get
LoggedIn(t) ==
    IF ret[t].kind = "Some" /\ VerifyKey(call[t].val, ret[t].v) THEN "Ok"
    ELSE "BadCredentials"

\* the rest of a call after the authmap answered
ProviderDone(t) ==
    /\ Return(t)
    /\ LET done == ret[t] = RetBool(TRUE) IN
       auth' = CASE auth.op[t] = "claim_root" ->
                       [auth EXCEPT
                          !.res[t] = Claimed(done),
                          !.whoami[t] = IF Claimed(done) = "Ok" THEN USER_ROOT ELSE @,
                          !.claimed = IF Claimed(done) = "Ok" THEN @ + 1 ELSE @]
                 [] auth.op[t] = "claim_user" ->
                       [auth EXCEPT !.res[t] = Claimed(done)]
                 [] auth.op[t] = "login" ->
                       [auth EXCEPT
                          !.res[t] = LoggedIn(t),
                          !.whoami[t] = IF LoggedIn(t) = "Ok" THEN call[t].key ELSE @]
                 [] OTHER ->
                       [auth EXCEPT !.res[t] = IF done THEN "Ok" ELSE "BadCredentials"]
    /\ UNCHANGED <<calls, pre, shadow, pos, iter, db>>

ProviderInit ==
    \E s \in Seeds, debug \in BOOLEAN, o \in {Origin, NoOrigin} :
        InitWithAuth(IF debug THEN TestsuiteAuthmap(TableWithCapacity(Prefill, s))
                     ELSE TableWithCapacity(Prefill, s),
                     [NoAuth EXCEPT !.origin = o])

ProviderNext == \E t \in Callers : ProviderCall(t) \/ ProviderStep(t) \/ ProviderDone(t)

ProviderSpec == ProviderInit /\ [][ProviderNext]_vars

(***************************************************************************)
(* The specification of CoreDB (coredb/mod.rs): handles on several threads *)
(* share one Coretable, a HashMap behind one reader-writer lock.  A call   *)
(* takes the lock (acquire_read / acquire_write), acts on the map and      *)
(* releases the lock as its statement ends.  A key the map does not hold   *)
(* is mapped to << >>, a key it holds to its Data.                         *)
(***************************************************************************)
\* what a call returns: Ok(val) or Err(code); exists returns a bool
DbOk(val) == [code |-> "Ok", val |-> val]
DbErr(code) == [code |-> code, val |-> 0]
DbBool(b) == [code |-> IF b THEN "true" ELSE "false", val |-> 0]

\* Data::from
DataFrom(value) == [blob |-> value]

Vacant(m, key) == m[key] = << >>

\* CoreDB::get
DbGet(m, key) ==
    IF Vacant(m, key) THEN [coremap |-> m, res |-> DbErr("NotFound")]
    ELSE [coremap |-> m, res |-> DbOk(m[key].blob)]

\* a set that overwrites
DbSetOverwriting(m, key, value) ==
    [coremap |-> [m EXCEPT ![key] = DataFrom(value)], res |-> DbOk(0)]

\* CoreDB::set
DbSet(m, key, value) ==
    IF Vacant(m, key)
    THEN [coremap |-> [m EXCEPT ![key] = DataFrom(value)], res |-> DbOk(0)]
    ELSE [coremap |-> m, res |-> DbErr("OverwriteError")]

\* CoreDB::update
DbUpdate(m, key, value) ==
    IF Vacant(m, key)
    THEN [coremap |-> m, res |-> DbErr("NotFound")]
    ELSE [coremap |-> [m EXCEPT ![key] = DataFrom(value)], res |-> DbOk(0)]

\* CoreDB::del
DbDel(m, key) ==
    IF Vacant(m, key)
    THEN [coremap |-> m, res |-> DbErr("NotFound")]
    ELSE [coremap |-> [m EXCEPT ![key] = << >>], res |-> DbOk(0)]

\* CoreDB::exists
DbExists(m, key) == [coremap |-> m, res |-> DbBool(~Vacant(m, key))]

DbCalls ==
    {[op |-> o, key |-> k, val |-> v] : o \in {"set", "update"}, k \in 1..NumConcKeys, v \in Vals}
    \cup {[op |-> o, key |-> k, val |-> 0] : o \in {"get", "del", "exists"}, k \in 1..NumConcKeys}

\* get and exists take the lock shared, set, update and del exclusive
DbMode(c) == IF c.op \in {"get", "exists"} THEN "r" ELSE "w"

\* acquire_read / acquire_write at the start of a call
DbAcquire(t) ==
    /\ db.lock[t] = "none"
    /\ \E c \in DbCalls :
        /\ IF DbMode(c) = "r"
           THEN \A u \in Callers \ {t} : db.lock[u] # "w"
           ELSE \A u \in Callers \ {t} : db.lock[u] = "none"
        /\ db' = [db EXCEPT !.lock[t] = DbMode(c), !.call[t] = c, !.res[t] = NoDb.res[t]]
    /\ UNCHANGED <<mapVars, threadVars, calls, pre, shadow, pos, iter, auth>>

DbResult(m, c) ==
    CASE c.op = "get" -> DbGet(m, c.key)
      [] c.op = "set" -> DbSet(m, c.key, c.val)
      [] c.op = "update" -> DbUpdate(m, c.key, c.val)
      [] c.op = "del" -> DbDel(m, c.key)
      [] c.op = "exists" -> DbExists(m, c.key)

\* the call acts on the map, returns, and its lock guard is dropped
DbAct(t) ==
    /\ db.lock[t] # "none"
    /\ LET r == DbResult(db.coremap, db.call[t]) IN
       db' = [db EXCEPT !.coremap = r.coremap, !.res[t] = r.res, !.lock[t] = "none"]
    /\ UNCHANGED <<mapVars, threadVars, calls, pre, shadow, pos, iter, auth>>

DbNext == \E t \in Callers : DbAcquire(t) \/ DbAct(t)

\* CoreDB::new without a file to load: the table is empty
DbInit == InitWith(TableWithCapacity(Prefill, 1))

DbSpec == DbInit /\ [][DbNext]_vars

(***************************************************************************)
(* Skymap::with_capacity as a function of its argument: a program that has *)
(* a Skymap::new() builds maps with Skymap::with_capacity(cap) for every   *)
(* cap up to MaxCap; the map under observation is the one built last.      *)
(***************************************************************************)
Capacities == 0..MaxCap

WithCapacityCall(cap) == [op |-> "with_capacity", key |-> cap, val |-> 0]

SkymapWithCapacity(cap, seed) ==
    /\ table' = TableWithCapacity(cap, seed)
    /\ len' = 0
    /\ call' = [call EXCEPT ![Main] = WithCapacityCall(cap)]
    /\ pc' = [pc EXCEPT ![Main] = "ret"]
    /\ ret' = [ret EXCEPT ![Main] = RetUnit]
    /\ shadow' = InitShadow(table')
    /\ UNCHANGED <<build, kind, i, tl, bl, lcl, calls, pre, clientVars>>

CapInit == \E seed \in Seeds : InitWith(SkymapNew(seed))

CapNext == \E cap \in Capacities, seed \in Seeds : SkymapWithCapacity(cap, seed)

CapSpec == CapInit /\ [][CapNext]_vars

(***************************************************************************)
(* update against remove: the map holds key 1, alone, behind or before     *)
(* key 2 or behind the Tombstone of key 2; Main calls update(1, v') once   *)
(* and Holder calls remove(1) once, and the results stay to be seen.       *)
(***************************************************************************)
RaceKey == 1

RaceTablesFrom(t, v) ==
    { InsertAlone(t, RaceKey, v),
      InsertAlone(InsertAlone(t, 2, 1), RaceKey, v),
      InsertAlone(InsertAlone(t, RaceKey, v), 2, 1),
      RemoveAlone(InsertAlone(InsertAlone(t, 2, 1), RaceKey, v), 2) }

RaceTables == UNION {RaceTablesFrom(t, v) : t \in InitTables, v \in Vals}

RaceProgram(t) ==
    IF t = Main THEN {Invocation("update", RaceKey, v) : v \in Vals}
    ELSE IF t = Holder THEN {Invocation("remove", RaceKey, 0)}
    ELSE {}

RaceCall(t) ==
    /\ pos[t] = 0
    /\ \E c \in RaceProgram(t) : Invoke(t, c.op, c.key, c.val)
    /\ pos' = [pos EXCEPT ![t] = 1]
    /\ UNCHANGED <<calls, pre, shadow, iter, auth, db>>

RaceStep(t) ==
    \/ TableRead(t)
    \/ Probe(t)
    \/ UpdateDone(t)
    \/ RemoveDone(t)

RaceInit == \E t0 \in RaceTables : InitWith(t0)

RaceNext == \E t \in Threads : RaceCall(t) \/ RaceStep(t)

RaceSpec == RaceInit /\ [][RaceNext]_vars

(***************************************************************************)
(* Vocabulary of the properties.                                           *)
(***************************************************************************)
\* the call of thread t is over: it returned, or it panicked
Over(t) == pc[t] \in {"ret", "panicked"}

\* no call is running
Quiescent == \A t \in Threads : pc[t] \in {"idle", "panicked"}

PresentIn(t, key) == HoldersOf(t, key) # {}

HasEmpty(t) == \E j \in 0..(Len(t.buckets) - 1) : is_empty(BucketAt(t, j))

\* len * 100 <= bucket_count * 85, of the number len holds as a usize
WithinLoad ==
    /\ ~Wrapped(len)
    /\ len * MAX_LOAD_FACTOR_DENOM <= BucketCount * MAX_LOAD_FACTOR_TOP

\* t2 is t1 but for bucket j, and bucket j holds the same key in both
SameButValueAt(t1, t2, j) ==
    /\ t2.hasher = t1.hasher
    /\ Len(t2.buckets) = Len(t1.buckets)
    /\ \A x \in 0..(Len(t1.buckets) - 1) : x # j => BucketAt(t2, x) = BucketAt(t1, x)
    /\ BucketAt(t2, j).st = "Contains"
    /\ BucketAt(t2, j).k = BucketAt(t1, j).k

(***************************************************************************)
(* C1.  insert(key, value) returns true exactly when the key is not        *)
(* present, and get(key) then yields value; when the key is present it     *)
(* returns false and leaves every bucket and len as they were.             *)
(* C1_InsertContract states it of every insert call that is over;          *)
(* C1_InsertWhenReturns states it of the insert calls that returned.       *)
(***************************************************************************)
InsertOutcome(t) ==
    IF PresentIn(pre.table, call[t].key)
    THEN /\ ret[t] = RetBool(FALSE)
         /\ table = pre.table
         /\ len = pre.len
    ELSE /\ ret[t] = RetBool(TRUE)
         /\ LookupValue(table, call[t].key) = RetSome(call[t].val)

C1_InsertContract ==
    \A t \in Threads : call[t].op = "insert" /\ Over(t) => InsertOutcome(t)

C1_InsertWhenReturns ==
    \A t \in Threads : call[t].op = "insert" /\ pc[t] = "ret" => InsertOutcome(t)

(***************************************************************************)
(* C2.  Keys are unique: in every state reachable by concurrent calls at   *)
(* most one Occupied bucket of the table holds any given key.              *)
(***************************************************************************)
C2_KeysUnique == \A k \in AllKeys : Cardinality(HoldersOf(table, k)) <= 1

(***************************************************************************)
(* C3.  After any sequence of calls the table has an Empty bucket, and no  *)
(* lookup probe visits every bucket without a match (the panic of scan and *)
(* scan_mut is not reached with the search predicate).                     *)
(***************************************************************************)
C3_AlwaysAnEmptyBucket ==
    /\ (\A t \in Threads : pc[t] = "idle") => HasEmpty(table)
    /\ \A t \in Threads : ~(pc[t] = "panicked" /\ kind[t] = "lookup")

(***************************************************************************)
(* C4.  Load-factor cap.  C4_LoadFactorAtReturn: in the step in which an   *)
(* insert call returns, len * 100 <= bucket_count * 85 holds of the map it *)
(* leaves, whatever the other threads are doing.                           *)
(* C4_LoadFactorNoOtherInsert: the same of the step in which an insert     *)
(* call returns while no other insert call is between writing its bucket   *)
(* and returning.                                                          *)
(***************************************************************************)
InsertReturns(t) == call[t].op = "insert" /\ pc[t] = "ret"

\* the step is the return of thread t's insert call
InsertReturning(t) == call[t].op = "insert" /\ pc[t] # "ret" /\ pc'[t] = "ret"

\* thread u's insert has written its bucket and has not finished reshard_table
MidInsert(u) ==
    /\ call[u].op = "insert"
    /\ pc[u] \in {"fetch_add", "check", "reserve", "write", "fill"}

C4_LoadFactorAtReturn ==
    [][\A t \in Threads : InsertReturning(t) => WithinLoad']_vars

C4_LoadFactorNoOtherInsert ==
    [][\A t \in Threads :
        InsertReturning(t) /\ (\A u \in Threads \ {t} : ~MidInsert(u)) => WithinLoad']_vars

\* an insert returns after the rehash it triggered
C4_Witness ==
    \E t \in Threads :
        /\ InsertReturns(t)
        /\ ret[t] = RetBool(TRUE)
        /\ \A u \in Threads \ {t} : ~MidInsert(u)
        /\ BucketCount = CapacityFor(ReserveTarget(len, 1))
        /\ len = Prefill + 2

(***************************************************************************)
(* C5.  Length coherence: a successful insert adds exactly 1 to len, a     *)
(* successful remove or remove_if_present takes exactly 1 off, and a       *)
(* failed insert, any update and a failed remove leave len as it was.      *)
(***************************************************************************)
LenChange(t) ==
    CASE call[t].op = "insert" /\ ret[t] = RetBool(TRUE) -> 1
      [] call[t].op = "remove" /\ ret[t].kind = "Some" -> -1
      [] call[t].op = "true_if_removed" /\ ret[t] = RetBool(TRUE) -> -1
      [] OTHER -> 0

C5_LengthCoherence ==
    \A t \in Threads :
        /\ Over(t)
        /\ call[t].op \in {"insert", "update", "remove", "true_if_removed"}
        => len = pre.len + LenChange(t)

\* a remove that succeeded, on a map that has grown
C5_Witness ==
    /\ pc[Main] = "ret"
    /\ call[Main].op = "remove"
    /\ ret[Main].kind = "Some"
    /\ len = pre.len - 1
    /\ BucketCount > DEF_MIN_CAPACITY

(***************************************************************************)
(* C6.  Whenever no call is running, len is the number of Occupied buckets *)
(* of the current table, after any interleaving of concurrent calls.       *)
(***************************************************************************)
C6_LenCountsOccupied == Quiescent => len = Cardinality(Occupied(table))

\* the three calls are over, the table was replaced by a rehash that two
\* concurrent inserts set off, and keys are in it
C6_Witness ==
    /\ \A t \in Threads : pc[t] = "idle"
    /\ calls = MaxCalls
    /\ BucketCount \notin {DEF_MIN_CAPACITY, DEF_INIT_CAPACITY}
    /\ len >= Prefill + 2

(***************************************************************************)
(* C7.  Round trip: a key whose insert returned true, with no remove of it *)
(* and no clear since, is found by get with the value inserted, or with    *)
(* the value of the last update of it that returned true, across the       *)
(* inserts of other keys and the rehashes they set off.                    *)
(***************************************************************************)
C7_RoundTrip ==
    /\ \A k \in AllKeys :
        (pc[Main] = "idle" /\ shadow[k] # 0)
            => LookupValue(table, k) = RetSome(shadow[k])
    /\ (call[Main].op = "get" /\ Over(Main) /\ shadow[call[Main].key] # 0)
            => ret[Main] = RetSome(shadow[call[Main].key])

\* get returns the updated value of a key that went through a rehash
C7_Witness ==
    /\ pc[Main] = "ret"
    /\ call[Main].op = "get"
    /\ ret[Main] = RetSome(2)
    /\ BucketCount = CapacityFor(ReserveTarget(Prefill + 2, 1))
    /\ \E j \in Occupied(table) :
        /\ BucketAt(table, j).k = call[Main].key
        /\ j # ProbeIndex(table, call[Main].key, 0)

(***************************************************************************)
(* C8.  Absence-stability: for a key that was never inserted, or whose     *)
(* last insert was followed by a successful remove (a clear() counts as    *)
(* one), get returns None and contains_key returns false, whatever was     *)
(* done with the other keys.  C8_AbsenceStability states it of every call  *)
(* that is over; C8_AbsentWhenReturns of the calls that returned.          *)
(***************************************************************************)
AbsentAnswer(t) ==
    ret[t] = IF call[t].op = "get" THEN RetNone ELSE RetBool(FALSE)

C8_AbsenceStability ==
    \A t \in Threads :
        (call[t].op \in {"get", "contains_key"} /\ Over(t) /\ shadow[call[t].key] = 0)
            => AbsentAnswer(t)

C8_AbsentWhenReturns ==
    \A t \in Threads :
        (call[t].op \in {"get", "contains_key"} /\ pc[t] = "ret" /\ shadow[call[t].key] = 0)
            => AbsentAnswer(t)

(***************************************************************************)
(* C9.  remove(k) of a present key returns Some(v), v the value stored     *)
(* for k, and leaves a Tombstone (never Empty) in its bucket; remove(k) of *)
(* a key that is not there (as after a remove with no insert since)        *)
(* returns None; remove_if_present answers true and false likewise.        *)
(* C9_RemoveContract states it of every remove call that is over;          *)
(* C9_RemoveWhenReturns of the remove calls that returned.                 *)
(***************************************************************************)
RemoveOutcome(t) ==
    LET held == HoldersOf(pre.table, call[t].key) IN
    IF held # {}
    THEN /\ \E j \in held :
            /\ ret[t] = IF call[t].op = "remove"
                        THEN RetSome(BucketAt(pre.table, j).v)
                        ELSE RetBool(TRUE)
            /\ table = SetBucket(pre.table, j, Removed)
    ELSE /\ ret[t] = IF call[t].op = "remove" THEN RetNone ELSE RetBool(FALSE)
         /\ table = pre.table

C9_RemoveContract ==
    \A t \in Threads :
        call[t].op \in {"remove", "true_if_removed"} /\ Over(t) => RemoveOutcome(t)

C9_RemoveWhenReturns ==
    \A t \in Threads :
        call[t].op \in {"remove", "true_if_removed"} /\ pc[t] = "ret" => RemoveOutcome(t)

(***************************************************************************)
(* C10.  update(k, v) never inserts: with k absent it returns false and    *)
(* leaves every bucket, the bucket count and len as they were; with k      *)
(* present it returns true and changes only the value stored with k.       *)
(* C10_UpdateContract states it of every update call that is over;         *)
(* C10_UpdateWhenReturns of the update calls that returned.                *)
(***************************************************************************)
UpdateOutcome(t) ==
    LET held == HoldersOf(pre.table, call[t].key) IN
    /\ len = pre.len
    /\ IF held # {}
       THEN /\ ret[t] = RetBool(TRUE)
            /\ \E j \in held :
                /\ SameButValueAt(pre.table, table, j)
                /\ BucketAt(table, j).v = call[t].val
       ELSE /\ ret[t] = RetBool(FALSE)
            /\ table = pre.table

C10_UpdateContract ==
    \A t \in Threads : call[t].op = "update" /\ Over(t) => UpdateOutcome(t)

C10_UpdateWhenReturns ==
    \A t \in Threads : call[t].op = "update" /\ pc[t] = "ret" => UpdateOutcome(t)

(***************************************************************************)
(* C11.  Threads concurrently insert pairwise disjoint keys: every insert  *)
(* returns true, and once all have returned len is the number of keys      *)
(* inserted and every inserted key is found with the value inserted for    *)
(* it, across the rehashes the inserts set off.                            *)
(* C11_DisjointInserts states it of every insert call; C11_WhenAllReturn   *)
(* states the final map of the runs in which every call returned.          *)
(***************************************************************************)
AllInserted ==
    /\ len = Prefill + 1 + NumThreads
    /\ \A t \in Threads : LookupValue(table, t) = RetSome(ValueOf(t))
    /\ \A k \in FillKeys : LookupValue(table, k) = RetSome(1)

C11_DisjointInserts ==
    /\ \A t \in Threads : pc[t] \in {"ret", "finished", "panicked"} => ret[t] = RetBool(TRUE)
    /\ (\A t \in Threads : pc[t] = "finished") => AllInserted

C11_WhenAllReturn ==
    /\ \A t \in Threads : pc[t] \in {"ret", "finished"} => ret[t] = RetBool(TRUE)
    /\ (\A t \in Threads : pc[t] = "finished") => AllInserted

(***************************************************************************)
(* C12.  Deadlock freedom: while a call is running some thread can take a  *)
(* step (no set of threads is blocked, each on a lock another holds), and  *)
(* under fair scheduling every call that was started returns.              *)
(* C12_NoDeadlock is the first part, C12_CallsEnd says that every call     *)
(* started returns or panics, C12_DeadlockFreedom is the claim.            *)
(***************************************************************************)
Running(t) == pc[t] \notin {"idle", "ret", "storing", "finished", "panicked"}

Started(t) == pc[t] \in {"read", "write"} /\ tl[t] = "none" /\ ret[t] = NoRet

\* the next step of thread t takes a lock that another thread holds
Blocked(t) ==
    \/ pc[t] = "read" /\ ~TableReadFree(t)
    \/ pc[t] = "write" /\ ~TableWriteFree(t)
    \/ /\ pc[t] = "scan"
       /\ i[t] < BucketCount
       /\ LET j == ProbeIndex(table, call[t].key, i[t]) IN
          IF ScanMut(t) THEN ~BucketWriteFree(t, j) ELSE ~BucketReadFree(t, j)

\* Blocked says when no step of the thread's call is enabled
BlockedIsDisabled == \A t \in Threads : Running(t) => (Blocked(t) <=> ~ENABLED Step(t))

C12_NoDeadlock ==
    (\E t \in Threads : Running(t)) =>
        \E u \in Threads : (Running(u) /\ ~Blocked(u)) \/ pc[u] \in {"ret", "storing"}

C12_CallsEnd == \A t \in Threads : Started(t) ~> Over(t)

\* C12: no state is a deadlock and every call started returns
C12_DeadlockFreedom ==
    /\ []C12_NoDeadlock
    /\ \A t \in Threads : Started(t) ~> (pc[t] = "ret")

(***************************************************************************)
(* C13.  While a ReadGuard returned by get(k) is alive, no step changes    *)
(* the bucket it points into, which holds k with the value the guard       *)
(* dereferences to, no step replaces the table (rehash, clear) and no      *)
(* update, remove or get_mut of k by another thread takes effect; other    *)
(* threads can hold ReadGuards on the same key meanwhile.                  *)
(* C13_ReadGuardStable is the part about the guard's bucket and the table, *)
(* C13_ReadGuardExcludes the whole of it.                                  *)
(***************************************************************************)
ReadGuard(t) == call[t].op = "get" /\ pc[t] = "ret" /\ ret[t].kind = "Some"

C13_ReadGuardStable ==
    [][\A t \in Threads :
        ReadGuard(t) =>
            /\ Len(table'.buckets) = Len(table.buckets)
            /\ table'.hasher = table.hasher
            /\ BucketAt(table, bl[t]) = Contains(call[t].key, ret[t].v)
            /\ BucketAt(table', bl[t]) = BucketAt(table, bl[t])]_vars

\* two threads hold ReadGuards on the same key, inserted by a call before
C13_Witness ==
    \E t, u \in Threads :
        /\ t # u
        /\ ReadGuard(t)
        /\ ReadGuard(u)
        /\ bl[t] = bl[u]
        /\ call[t].key \notin FillKeys

\* a call of thread u on key k takes effect in this step: an update that
\* returns true, a remove that returns the value, a get_mut that returns a
\* WriteGuard
TakesEffect(u, k) ==
    /\ call[u].key = k
    /\ pc[u] # "ret"
    /\ pc'[u] = "ret"
    /\ \/ call[u].op = "update" /\ ret'[u] = RetBool(TRUE)
       \/ call[u].op \in {"remove", "get_mut"} /\ ret'[u].kind = "Some"

\* C13: while a ReadGuard on k is alive its bucket and the table stay as they
\* are and no update, remove or get_mut of k by another thread takes effect
C13_ReadGuardExcludes ==
    [][\A t \in Threads :
        ReadGuard(t) =>
            /\ Len(table'.buckets) = Len(table.buckets)
            /\ BucketAt(table', bl[t]) = Contains(call[t].key, ret[t].v)
            /\ \A u \in Threads \ {t} : ~TakesEffect(u, call[t].key)]_vars

(***************************************************************************)
(* C14.  While a WriteGuard from get_mut(k) is held, no other thread holds *)
(* a lock or guard on the same bucket and the bucket holds k with what the *)
(* holder stored; no call of another thread returns a value of a store     *)
(* that is under way; no update or remove of k by another thread completes *)
(* with an effect.  C14_SingleWriter is the part about the bucket and the  *)
(* values read, C14_WriteGuardExcludes the part about the calls on k.      *)
(***************************************************************************)
WriteGuard(t) ==
    call[t].op = "get_mut" /\ pc[t] \in {"ret", "storing"} /\ ret[t].kind = "Some"

C14_SingleWriter ==
    /\ \A t \in Threads :
        WriteGuard(t) =>
            /\ \A u \in Threads \ {t} : bl[u] # bl[t]
            /\ BucketAt(table, bl[t]) = Contains(call[t].key, ret[t].v)
    /\ \A u \in Threads :
        (ret[u].kind = "Some" /\ ret[u].v = Torn) => (WriteGuard(u) /\ pc[u] = "storing")

\* a store through a WriteGuard is under way while another thread's get of
\* the same key has reached the bucket
C14_Witness ==
    \E t, u \in Threads :
        /\ WriteGuard(t)
        /\ pc[t] = "storing"
        /\ call[u].op = "get"
        /\ call[u].key = call[t].key
        /\ pc[u] = "scan"
        /\ i[u] < BucketCount
        /\ ProbeIndex(table, call[u].key, i[u]) = bl[t]

\* C14: while a WriteGuard on k is held no other thread holds a lock on its
\* bucket and no update, remove or get_mut of k by another thread takes effect
C14_WriteGuardExcludes ==
    [][\A t \in Threads :
        WriteGuard(t) =>
            /\ \A u \in Threads \ {t} : bl[u] # bl[t]
            /\ \A u \in Threads \ {t} : ~TakesEffect(u, call[t].key)]_vars

(***************************************************************************)
(* C15.  Capacity monotonicity: no step of an insert makes the bucket      *)
(* count smaller, so the count after an insert is at least the count       *)
(* before and the table a rehash installs has strictly more buckets than   *)
(* the one it replaces; no step of update, remove, true_if_removed, get,   *)
(* get_mut or contains_key changes the bucket count.                       *)
(***************************************************************************)
StepOf(t) == pc'[t] # pc[t]

C15_CapacityMonotone ==
    [][\A t \in Threads :
        (StepOf(t) /\ call[t].op # "clear") =>
            /\ Len(table'.buckets) >= Len(table.buckets)
            /\ pc[t] = "fill" /\ table' # table => Len(table'.buckets) > Len(table.buckets)
            /\ call[t].op # "insert" => Len(table'.buckets) = Len(table.buckets)]_vars

\* an insert has returned after its rehash gave the map a larger table
C15_Witness ==
    \E t \in Threads :
        /\ call[t].op = "insert"
        /\ pc[t] = "ret"
        /\ BucketCount = CapacityFor(lcl[t])
        /\ BucketCount > Len(Prefilled(1, 0).buckets)

(***************************************************************************)
(* C16.  clear() resets the map to its initial default: len is 0, every    *)
(* bucket is Empty and there are as many buckets as in a map freshly       *)
(* created by new().  C16_ClearEmpties is the claim without the bucket     *)
(* count of new().                                                         *)
(***************************************************************************)
AllEmpty(t) == \A j \in 0..(Len(t.buckets) - 1) : is_empty(BucketAt(t, j))

C16_ClearResets ==
    \A t \in Threads :
        call[t].op = "clear" /\ Over(t) =>
            /\ pc[t] = "ret"
            /\ len = 0
            /\ AllEmpty(table)
            /\ BucketCount = Len(SkymapNew(table.hasher).buckets)

C16_ClearEmpties ==
    \A t \in Threads :
        call[t].op = "clear" /\ Over(t) =>
            /\ pc[t] = "ret"
            /\ len = 0
            /\ AllEmpty(table)
            /\ BucketCount = DEF_INIT_CAPACITY

(***************************************************************************)
(* C17.  Snapshot iteration yields every Occupied pair of the table        *)
(* exactly once and nothing else: each item yielded is the pair of an      *)
(* Occupied bucket, no pair is yielded twice, and once next() has returned *)
(* None every Occupied bucket's pair was yielded, the items are as many as *)
(* the Occupied buckets and no more than bucket_count buckets were popped. *)
(***************************************************************************)
PairOf(b) == <<b.k, b.v>>

TimesYielded(item) == Cardinality({n \in DOMAIN iter.out : iter.out[n] = item})

C17_SnapshotIteration ==
    iter # NoIter =>
        /\ \A n \in DOMAIN iter.out :
            /\ \E j \in Occupied(table) : PairOf(BucketAt(table, j)) = iter.out[n]
            /\ TimesYielded(iter.out[n]) = 1
        /\ iter.pops <= BucketCount
        /\ iter.pops + Len(iter.buckets) = BucketCount
        /\ iter.over =>
            /\ \A j \in Occupied(table) : TimesYielded(PairOf(BucketAt(table, j))) = 1
            /\ Len(iter.out) = Cardinality(Occupied(table))

\* the iteration of a table with Occupied, Tombstone and Empty buckets is over
C17_Witness ==
    /\ iter # NoIter
    /\ iter.over
    /\ Len(iter.out) >= 2
    /\ \E j \in 0..(BucketCount - 1) : is_removed(BucketAt(table, j))
    /\ \E j \in 0..(BucketCount - 1) : is_empty(BucketAt(table, j))

(***************************************************************************)
(* C18.  claim_root with the right origin key succeeds only when no root   *)
(* user is in the authmap and fails with the already-claimed error when    *)
(* there is one, leaving the caller's whoami and root's credential as they *)
(* were; so at most one claim_root of all the providers succeeds.          *)
(* C18_ClaimRootAnswers is the part about one call, C18_ClaimRootOnce the  *)
(* claim.                                                                  *)
(***************************************************************************)
C18_ClaimRootAnswers ==
    \A t \in Threads :
        auth.op[t] = "claim_root" =>
            /\ auth.res[t] \in {"-", "Ok", "AlreadyClaimed", "BadCredentials"}
            /\ auth.res[t] = "Ok" => auth.whoami[t] = USER_ROOT /\ PresentIn(table, USER_ROOT)
            /\ auth.res[t] \in {"AlreadyClaimed", "BadCredentials"} => auth.whoami[t] = auth.was[t]
            /\ auth.res[t] = "AlreadyClaimed" => PresentIn(table, USER_ROOT)

\* every claim_root that succeeded put a root user of its own into the authmap
C18_ClaimsAreInserts == auth.claimed <= Cardinality(HoldersOf(table, USER_ROOT))

\* C18: a claim_root answers as above and at most one claim_root succeeds
C18_ClaimRootOnce ==
    /\ C18_ClaimRootAnswers
    /\ auth.claimed <= 1

(***************************************************************************)
(* C19.  CoreDB answers with an error code and leaves the map as it is:    *)
(* set on a key the map holds returns OverwriteError, update and del on a  *)
(* key it does not hold return NotFound, get on such a key returns         *)
(* NotFound; and each call runs under the table lock: while a handle holds *)
(* the lock for a set, update or del no other handle holds it and the map  *)
(* changes only by the holder's own step.                                  *)
(***************************************************************************)
Acts(t) == db.lock[t] # "none" /\ db'.lock[t] = "none"

C19_ErrorsLeaveState ==
    [][\A t \in Threads :
        /\ Acts(t) =>
            LET c == db.call[t]
                vacant == Vacant(db.coremap, c.key)
            IN  /\ c.op = "set" /\ ~vacant =>
                    db'.res[t] = DbErr("OverwriteError") /\ db'.coremap = db.coremap
                /\ c.op \in {"update", "del"} /\ vacant =>
                    db'.res[t] = DbErr("NotFound") /\ db'.coremap = db.coremap
                /\ c.op = "get" /\ vacant =>
                    db'.res[t] = DbErr("NotFound") /\ db'.coremap = db.coremap
                /\ db'.res[t].code \in {"OverwriteError", "NotFound"} => db'.coremap = db.coremap
        /\ db.lock[t] = "w" =>
            /\ \A u \in Threads \ {t} : db.lock[u] = "none"
            /\ ~Acts(t) => db'.coremap = db.coremap]_vars

\* a set was refused a key the map holds, with its value, while another
\* handle has been told NotFound
C19_Witness ==
    \E t, u \in Threads :
        /\ db.call[t].op = "set"
        /\ db.res[t] = DbErr("OverwriteError")
        /\ db.coremap[db.call[t].key] # << >>
        /\ db.coremap[db.call[t].key] # DataFrom(db.call[t].val)
        /\ db.call[u].op \in {"update", "del"}
        /\ db.res[u] = DbErr("NotFound")

(***************************************************************************)
(* C20.  The find-free probe of insert always finds an Empty or Tombstone  *)
(* bucket: under concurrent inserts of distinct keys no insert visits      *)
(* every bucket of the table without finding an available one.             *)
(***************************************************************************)
C20_FindFreeFinds ==
    \A t \in Threads : ~(pc[t] = "panicked" /\ call[t].op = "insert" /\ kind[t] = "free")

(***************************************************************************)
(* C21.  Probe-chain integrity: for every Occupied bucket j holding key k, *)
(* every bucket the probe of k visits before j is Occupied with a key      *)
(* other than k or is a Tombstone, never Empty.  C21_NoEmptyInChain is the *)
(* part about Empty buckets, C21_ProbeChain the claim.                     *)
(***************************************************************************)
\* the iteration in which the probe of key visits bucket j
ProbePos(t, key, j) ==
    (j + Len(t.buckets) - (Hash(t.hasher, key) % Len(t.buckets))) % Len(t.buckets)

\* the buckets the probe of the key in bucket j visits before j
ChainBefore(t, j) ==
    {ProbeIndex(t, BucketAt(t, j).k, n) : n \in 0..(ProbePos(t, BucketAt(t, j).k, j) - 1)}

C21_NoEmptyInChain ==
    \A j \in Occupied(table) : \A c \in ChainBefore(table, j) : ~is_empty(BucketAt(table, c))

C21_ProbeChain ==
    \A j \in Occupied(table) :
        \A c \in ChainBefore(table, j) :
            \/ is_removed(BucketAt(table, c))
            \/ BucketAt(table, c).st = "Contains" /\ BucketAt(table, c).k # BucketAt(table, j).k

(***************************************************************************)
(* C22.  The length counter is a count that never wraps: in every state    *)
(* 0 <= len <= bucket_count, and no insert finds the counter at usize::MAX *)
(* when it computes the previous len + 1.                                  *)
(***************************************************************************)
C22_LenNeverWraps ==
    /\ ~Wrapped(len)
    /\ len <= BucketCount
    /\ \A t \in Threads : pc[t] = "fetch_add" => FetchAdd(len) # 0

(***************************************************************************)
(* C23.  A rehash preserves the contents of the map: the step of           *)
(* reserve_space that replaces the table leaves the same (key, value)      *)
(* pairs in as many Occupied buckets, leaves no Tombstone in the new table *)
(* and does not change len.                                                *)
(***************************************************************************)
PairsOf(t) == {PairOf(BucketAt(t, j)) : j \in Occupied(t)}

Tombstones(t) == {j \in 0..(Len(t.buckets) - 1) : is_removed(BucketAt(t, j))}

C23_RehashPreserves ==
    [][\A t \in Threads :
        pc[t] = "fill" /\ pc'[t] # "fill" =>
            /\ PairsOf(table') = PairsOf(table)
            /\ Cardinality(Occupied(table')) = Cardinality(Occupied(table))
            /\ len' = len
            /\ table' # table => Tombstones(table') = {}]_vars

\* an insert has returned after its rehash replaced a table that had a
\* Tombstone
C23_Witness ==
    /\ pre # NoPre
    /\ call[Main].op = "insert"
    /\ pc[Main] = "ret"
    /\ BucketCount > Len(pre.table.buckets)
    /\ Tombstones(pre.table) # {}
    /\ PairsOf(table) = PairsOf(pre.table) \cup {<<call[Main].key, call[Main].val>>}

(***************************************************************************)
(* C24.  Rehash trigger.  An insert that wrote its pair and whose          *)
(* incremented len exceeds 85% of the bucket count does not return from    *)
(* its load-factor test: it goes on to reserve_space, whose target is      *)
(* (len + 1) * 4 and whose step under the write lock installs              *)
(* Table::with_capacity(target), unless the table has that many buckets by *)
(* then.  An insert below the threshold returns true and leaves the table  *)
(* alone.  Only such an insert reaches reserve_space: no step of a failed  *)
(* insert, of update or of remove changes the bucket count.                *)
(***************************************************************************)
Moves(t) == pc'[t] # pc[t]

Rehashing(t) == call[t].op # "clear" /\ pc[t] \in {"reserve", "write", "fill"}

C24_SequentialTrigger ==
    pre # NoPre /\ pc[Main] = "ret" /\ call[Main].op # "clear" =>
        IF /\ call[Main].op = "insert"
           /\ ret[Main] = RetBool(TRUE)
           /\ len * 100 > Len(pre.table.buckets) * 85
        THEN /\ len = pre.len + 1
             /\ BucketCount = CapacityFor((len + 1) * 4)
        ELSE BucketCount = Len(pre.table.buckets)

C24_AlwaysReplaced ==
    [][\A t \in Threads :
        Rehashing(t) /\ pc[t] = "fill" /\ pc'[t] = "ret" =>
            Len(table'.buckets) = CapacityFor(lcl[t])]_vars

(***************************************************************************)
(* C25.  Rehash re-check.  Of the inserting threads that saw the load      *)
(* factor exceeded in the first table and dropped the read lock, only the  *)
(* first one at the write lock replaces the table: a thread that gets the  *)
(* write lock once the table has been replaced leaves the table as it is.  *)
(* Under InsertSpec every thread makes one insert into a table of          *)
(* CapacityFor(Prefill + 1) buckets, so a table of another size has been   *)
(* replaced, and no replacement is ever over the threshold again.          *)
(***************************************************************************)
ReplacedBefore == BucketCount # CapacityFor(Prefill + 1)

C25_ReplacedOnce ==
    [][\A t \in Threads :
        Rehashing(t) /\ pc[t] = "fill" /\ Moves(t) /\ ReplacedBefore =>
            table' = table]_vars

\* what does hold of the re-check: the thread skips when the table has the
\* (len + 1) * 4 buckets of its own target, and replaces it otherwise
C25_RecheckByTarget ==
    [][\A t \in Threads :
        Rehashing(t) /\ pc[t] = "fill" /\ pc'[t] = "ret" =>
            (table' = table) = (BucketCount >= lcl[t])]_vars


\* the same in the state before the step: a thread that holds the write lock
\* over a table already replaced finds reserve_space's test
\* `lock.buckets.len() < len` false
C25_SecondSkips ==
    \A t \in Threads :
        Rehashing(t) /\ pc[t] = "fill" /\ ReplacedBefore => BucketCount >= lcl[t]

(***************************************************************************)
(* C26.  Table::with_capacity(c) allocates max(16, floor(c * 100 / 85) + 1)*)
(* buckets, all Empty, and c keys fit under the load factor:               *)
(* c * 100 <= n * 85, so that no insert up to the c-th sees len past 85%.  *)
(* The count of the claim as stated has the quotient rounded up instead.   *)
(***************************************************************************)
Built == call[Main].op = "with_capacity"

BuiltFor == call[Main].key

Floor(a, b) == a \div b

Ceiling(a, b) == (a + b - 1) \div b

HoldsWithoutRehash(c, n) ==
    /\ c * 100 <= n * 85
    /\ \A l \in 1..c : ~(l * 100 > n * 85)

C26_CapacityRoundedUp ==
    Built =>
        /\ BucketCount = Max(16, Ceiling(BuiltFor * 100, 85) + 1)
        /\ AllEmpty(table)
        /\ HoldsWithoutRehash(BuiltFor, BucketCount)

C26_CapacityRoundedDown ==
    Built =>
        /\ BucketCount = Max(16, Floor(BuiltFor * 100, 85) + 1)
        /\ AllEmpty(table)
        /\ len = 0
        /\ HoldsWithoutRehash(BuiltFor, BucketCount)

\* a map built for 14 keys: 1400 / 85 is 16.47.., the table has 17 buckets
C26_Witness ==
    /\ Built
    /\ BuiltFor = 14
    /\ BucketCount = 17
    /\ AllEmpty(table)

(***************************************************************************)
(* C27.  Lock discipline.  A thread takes a bucket lock only when it holds *)
(* no bucket lock and holds the table-wide lock, so it never holds two; it *)
(* holds a bucket lock only while it holds the table-wide lock; and it     *)
(* waits for the table-wide lock (table.read() or table.write()) only when *)
(* it holds no bucket lock.                                                *)
(***************************************************************************)
HoldsBucket(t) == bl[t] # -1

AwaitsTable(t) == pc[t] \in {"read", "write"}

C27_LockDiscipline ==
    /\ [](\A t \in Threads :
            /\ HoldsBucket(t) => tl[t] # "none"
            /\ AwaitsTable(t) => ~HoldsBucket(t) /\ tl[t] = "none")
    /\ [][\A t \in Threads :
            bl'[t] # bl[t] /\ bl'[t] # -1 => ~HoldsBucket(t) /\ tl[t] # "none"]_vars

\* insert holds the write lock of the free bucket its second scan found,
\* after the lock its lookup held was dropped, while another thread holds the
\* lock of another bucket
C27_Witness ==
    \E t, u \in Threads :
        /\ call[t].op = "insert" /\ kind[t] = "free" /\ pc[t] = "found"
        /\ HoldsBucket(t) /\ HoldsBucket(u)
        /\ bl[t] # bl[u]
        /\ tl[t] = "r" /\ tl[u] = "r"

(***************************************************************************)
(* C28.  Rehash and clear are exclusive: while a thread holds the          *)
(* table-wide lock in exclusive mode, no other thread holds a bucket lock  *)
(* or a guard, and no other thread's insert, update, remove or lookup is   *)
(* between its first and its last access to the table.                     *)
(***************************************************************************)
\* a call that has made an access to the table and has another one to make:
\* it holds the table lock, or it is an insert that dropped the read lock
\* after contains_key or in reshard_table and has not taken the lock again
Midway(t) ==
    \/ tl[t] # "none"
    \/ /\ call[t].op = "insert"
       /\ \/ pc[t] = "read" /\ kind[t] = "free"
          \/ pc[t] \in {"reserve", "write"}

C28_NoLockUnderWrite ==
    \A t \in Threads :
        tl[t] = "w" => \A u \in Threads \ {t} : ~HoldsBucket(u) /\ tl[u] = "none"

C28_Exclusive ==
    \A t \in Threads :
        tl[t] = "w" => \A u \in Threads \ {t} : ~HoldsBucket(u) /\ ~Midway(u)

(***************************************************************************)
(* C29.  update(k, v') and remove(k) by two threads on a key k that is     *)
(* present with value v are ordered by the bucket lock: once both have     *)
(* ended, either update returned true and remove returned Some(v'), or     *)
(* remove returned Some(v) and update returned false; k is absent and len  *)
(* is one less than before.                                                *)
(***************************************************************************)
ValueBefore(k) == shadow[k]

LenBefore == Cardinality({k \in AllKeys : shadow[k] # 0})

RaceOver ==
    /\ call[Main].op = "update" /\ Over(Main)
    /\ call[Holder].op = "remove" /\ Over(Holder)

UpdateThenRemove ==
    /\ ret[Main] = RetBool(TRUE)
    /\ ret[Holder] = RetSome(call[Main].val)

RemoveThenUpdate ==
    /\ ret[Holder] = RetSome(ValueBefore(RaceKey))
    /\ ret[Main] = RetBool(FALSE)

C29_WitnessRemoveFirst ==
    /\ RaceOver
    /\ RemoveThenUpdate
    /\ call[Main].val # ValueBefore(RaceKey)

(***************************************************************************)
(* C30.  remove(a) affects only key a: when the call has returned, a       *)
(* lookup of any other key b (get, contains_key) gives what it gave before *)
(* the call, also for a b that sits behind a in a's probe chain; and an    *)
(* insert that has returned true, into a's Tombstone or elsewhere, leaves  *)
(* every key that was present with the value a lookup found before.        *)
(***************************************************************************)
Removal == call[Main].op \in {"remove", "true_if_removed"}

OtherKeys == AllKeys \ {call[Main].key}

\* key b is held further along the probe chain that key a's bucket is on
Behind(t, a, b) ==
    \E ja \in HoldersOf(t, a), jb \in HoldersOf(t, b) :
        /\ Hash(t.hasher, a) % Len(t.buckets) = Hash(t.hasher, b) % Len(t.buckets)
        /\ ProbePos(t, b, jb) > ProbePos(t, a, ja)

\* the pair of the insert went into a bucket that was a Tombstone
ReusedTombstone ==
    /\ Len(pre.table.buckets) = BucketCount
    /\ \E j \in HoldersOf(table, call[Main].key) : is_removed(BucketAt(pre.table, j))

C30_RemoveAffectsOnlyItsKey ==
    pre # NoPre /\ pc[Main] = "ret" =>
        /\ Removal =>
              \A b \in OtherKeys : LookupValue(table, b) = LookupValue(pre.table, b)
        /\ call[Main].op = "insert" /\ ret[Main] = RetBool(TRUE) =>
              \A b \in OtherKeys :
                  PresentIn(pre.table, b) => LookupValue(table, b) = LookupValue(pre.table, b)

\* remove(a) returned the value of a, and a key b that was placed behind a in
\* a's probe chain is found as before
C30_Witness ==
    /\ pre # NoPre /\ pc[Main] = "ret"
    /\ call[Main].op = "remove"
    /\ ret[Main].kind = "Some"
    /\ \E b \in OtherKeys :
          /\ Behind(pre.table, call[Main].key, b)
          /\ LookupValue(table, b).kind = "Some"
          /\ LookupValue(table, b) = LookupValue(pre.table, b)

\* an insert went into a Tombstone that lies before a present key of the
\* same probe chain
C30_WitnessReuse ==
    /\ pre # NoPre /\ pc[Main] = "ret"
    /\ call[Main].op = "insert" /\ ret[Main] = RetBool(TRUE)
    /\ ReusedTombstone
    /\ \E b \in OtherKeys :
          /\ Behind(table, call[Main].key, b)
          /\ LookupValue(table, b).kind = "Some"

(***************************************************************************)
(* C31.  The root user can never be deleted: a delete_user of root fails   *)
(* for every caller without a call into the authmap, with the              *)
(* failed-to-delete error when the caller is logged in as root and with    *)
(* the error of ensure_root otherwise; no true_if_removed of root is ever  *)
(* made; and no step of any provider takes root out of an authmap that     *)
(* holds it.                                                               *)
(***************************************************************************)
DeletesRoot(t) == auth.op[t] = "delete_user" /\ auth.arg[t] = USER_ROOT

RootPresent(t) == PresentIn(t, USER_ROOT) /\ LookupValue(t, USER_ROOT).kind = "Some"

C31_RootNeverDeleted ==
    /\ [](\A t \in Threads :
            /\ DeletesRoot(t) =>
                  /\ pc[t] = "idle"
                  /\ auth.res[t] =
                        IF auth.origin = NoOrigin THEN "Disabled"
                        ELSE IF auth.was[t] = USER_ROOT THEN "FailedToDelete"
                        ELSE "Perms"
                  /\ auth.whoami[t] = auth.was[t]
            /\ call[t].op = "true_if_removed" => call[t].key # USER_ROOT)
    /\ [][RootPresent(table) => RootPresent(table')]_vars

\* root, logged in, was refused the deletion of root, and root is in the
\* authmap
C31_Witness ==
    \E t \in Threads :
        /\ DeletesRoot(t)
        /\ auth.was[t] = USER_ROOT
        /\ auth.res[t] = "FailedToDelete"
        /\ RootPresent(table)

(***************************************************************************)
(* C32.  Root-only operations are gated on the session: claim_user,        *)
(* regenerate, delete_user and collect_usernames called by a provider      *)
(* whose whoami is not root end without a call into the authmap, with the  *)
(* disabled error when no origin key is configured and with the permission *)
(* error when nobody or a user other than root is logged in, and a call    *)
(* that ends so leaves the authmap as it is; called by root they pass the  *)
(* gate.  whoami becomes Some only by a claim_root or a login that         *)
(* succeeds, is None after logout and None in a clone.                     *)
(***************************************************************************)
RootOnly == {"claim_user", "regenerate", "delete_user", "collect_usernames"}

GateErrors == {"Disabled", "Perms"}

CalledByRoot(t) == auth.origin # NoOrigin /\ auth.was[t] = USER_ROOT

\* a call was answered by the provider alone: no thread moved
AnsweredAtOnce == calls' # calls /\ pc' = pc

C32_Gated ==
    \A t \in Threads :
        auth.op[t] \in RootOnly =>
            IF CalledByRoot(t)
            THEN auth.res[t] \notin GateErrors
            ELSE /\ auth.res[t] = IF auth.origin = NoOrigin THEN "Disabled" ELSE "Perms"
                 /\ pc[t] = "idle"
                 /\ auth.whoami[t] = auth.was[t]

C32_Sessions ==
    \A t \in Threads :
        /\ auth.op[t] = "logout" =>
              /\ auth.res[t] =
                    IF auth.origin = NoOrigin THEN "Disabled"
                    ELSE IF auth.was[t] = 0 THEN "Perms" ELSE "Ok"
              /\ auth.whoami[t] = 0
        /\ auth.op[t] = "clone" => auth.whoami[t] = 0
        /\ auth.origin = NoOrigin => auth.whoami[t] = 0

C32_RootOnlyGated ==
    /\ [](C32_Gated /\ C32_Sessions)
    /\ [][/\ AnsweredAtOnce => table' = table /\ len' = len
          /\ \A t \in Threads :
                auth'.whoami[t] # auth.whoami[t] =>
                    IF auth'.whoami[t] # 0
                    THEN /\ auth'.res[t] = "Ok"
                         /\ \/ auth'.op[t] = "claim_root" /\ auth'.whoami[t] = USER_ROOT
                            \/ auth'.op[t] = "login" /\ auth'.whoami[t] = auth'.arg[t]
                    ELSE auth'.op[t] \in {"logout", "clone"}]_vars

\* a user other than root, logged in, was refused a root-only operation
C32_Witness ==
    \E t \in Threads :
        /\ auth.op[t] \in RootOnly
        /\ auth.was[t] = TestUser
        /\ auth.res[t] = "Perms"
        /\ pc[t] = "idle"

\* the other refusals, and a call of root that passed the gate
C32_WitnessDisabled ==
    \E t \in Threads : auth.op[t] \in RootOnly /\ auth.res[t] = "Disabled"

C32_WitnessNobody ==
    \E t \in Threads :
        auth.op[t] \in RootOnly /\ auth.was[t] = 0 /\ auth.res[t] = "Perms"

C32_WitnessRoot ==
    \E t \in Threads :
        auth.op[t] = "claim_user" /\ auth.was[t] = USER_ROOT /\ auth.res[t] = "Ok"

\* a provider that was logged in took the place of a clone of another that is
C32_WitnessClone ==
    \E t, u \in Callers :
        /\ auth.op[t] = "clone" /\ auth.was[t] # 0
        /\ auth.whoami[u] # 0 /\ auth.whoami[t] = 0

====
